---- MODULE Spec2Model ----
(***************************************************************************)
(* AEGIS dead man's switch: the GF(256) secret splitter (src/js/lang.js,   *)
(* AegisShamir), the crypto envelope (src/crypto.js, AegisCrypto), the     *)
(* check-in protocol (src/js/checkin.js, AegisCheckin) and the GitHub      *)
(* heartbeat client (src/unnamed/part_000, AegisGitHub).                   *)
(*                                                                         *)
(* Each component has its own specification over its own variables; the    *)
(* variables of the other components stay at their initial values.         *)
(***************************************************************************)
EXTENDS Integers, Sequences, FiniteSets, TLC

VARIABLES
  shSecret,   \* AegisShamir: the secret handed to the last split call
  shShares,   \* AegisShamir: the shares that call returned (<<>> if it threw)
  shSplitErr, \* AegisShamir: the error the last split call threw, or "none"
  shSeed,     \* AegisShamir: the outcome of getRandomValues sampled by the split
  shPicked,   \* AegisShamir: the shares handed to the last combine call
  shResult,   \* AegisShamir: what that combine call returned or threw
  shExport,   \* AegisShamir: what is handed to importShare
  shImport,   \* AegisShamir: what importShare returned or threw
  esNow,      \* AegisCheckin: the guardian's clock, in epoch milliseconds
  esLast,     \* AegisCheckin: the last known check-in time, or Absent
  esInterval, \* AegisCheckin: the agreed check-in interval, in hours
  esEval,     \* AegisCheckin: the last getEscalationLevel/isOverdue evaluation
  hbStore,    \* AegisGitHub: heartbeat.json in the repository
  hbClock,    \* AegisGitHub: the check-ins started so far, also the time
  hbPc,       \* AegisGitHub: where each browser's performHeartbeat stands
  hbExisting, \* AegisGitHub: what getHeartbeat returned to it
  hbRequest,  \* AegisGitHub: the PUT it sent
  hbResponse, \* AegisGitHub: the answer waiting for it
  hbReturn,   \* AegisGitHub: what performHeartbeat returned
  hbTrace,    \* AegisGitHub: what happened in the store during the run
  crPlain,    \* AegisCrypto: the data handed to the last encrypt call
  crPass,     \* AegisCrypto: the passphrase handed to it
  crEnvelope, \* AegisCrypto: the { salt, iv, ciphertext } it returned
  crPacked,   \* AegisCrypto: the packed envelope
  crTamper,   \* AegisCrypto: which part had a bit flipped since, if any
  crStage,    \* AegisCrypto: how far the envelope has come
  crDecPass,  \* AegisCrypto: the passphrase handed to the last decrypt call
  crResult,   \* AegisCrypto: what that call returned or threw
  tkArgs,     \* AegisCheckin: the arguments of the last generateToken call
  tkResult,   \* AegisCheckin: what it returned
  tkToken,    \* AegisCheckin: the token object handed to a guardian
  tkAltered,  \* AegisCheckin: how that object differs from the one generated
  tkStage,    \* AegisCheckin: how far the token has come
  tkVerify,   \* AegisCheckin: what verifyToken returned for it
  evArgs,     \* AegisCrypto: the arguments of the last createEvidencePackage call
  evCreated,  \* AegisCrypto: what it returned
  evOpened,   \* AegisCrypto: the passphrase and result of decryptEvidencePackage
  evStage     \* AegisCrypto: how far the package has come

shamirVars == <<shSecret, shShares, shSplitErr, shSeed, shPicked, shResult,
                shExport, shImport>>
escalationVars == <<esNow, esLast, esInterval, esEval>>

heartbeatVars == <<hbStore, hbClock, hbPc, hbExisting, hbRequest, hbResponse,
                   hbReturn, hbTrace>>

cryptoVars == <<crPlain, crPass, crEnvelope, crPacked, crTamper, crStage,
                crDecPass, crResult>>

tokenVars == <<tkArgs, tkResult, tkToken, tkAltered, tkStage, tkVerify>>

evidenceVars == <<evArgs, evCreated, evOpened, evStage>>

vars == <<shamirVars, escalationVars, heartbeatVars, cryptoVars, tokenVars,
          evidenceVars>>

\* the variables of the components a specification leaves alone
notShamir == <<escalationVars, heartbeatVars, cryptoVars, tokenVars, evidenceVars>>
notEscalation == <<shamirVars, heartbeatVars, cryptoVars, tokenVars, evidenceVars>>
notHeartbeat == <<shamirVars, escalationVars, cryptoVars, tokenVars, evidenceVars>>
notCrypto == <<shamirVars, escalationVars, heartbeatVars, tokenVars, evidenceVars>>
notToken == <<shamirVars, escalationVars, heartbeatVars, cryptoVars, evidenceVars>>
notEvidence == <<shamirVars, escalationVars, heartbeatVars, cryptoVars, tokenVars>>

(***************************************************************************)
(* Bounds of the model                                                     *)
(***************************************************************************)
\* largest number of shares a split call is asked for
MaxShares == 4
\* longest secret, in bytes
MaxLen == 2
\* longest list of shares with a repeated share that is handed to combine
MaxDupLen == 3
\* the hours the guardian's clock runs for
MaxHours == 8
\* the check-ins the browsers start, all told
MaxRuns == 3
\* longest plaintext handed to encrypt, in bytes
MaxPlainLen == 2
\* the shares one byte is split into when fewer than the threshold are looked at
MaxSecrecyShares == 3
\* the most files put into one evidence package
MaxFiles == 2

\* byte values the secrets are made of
SecretBytes == {0, 83, 255}
\* seeds of the sampled outcomes of crypto.getRandomValues
RandomSeeds == {0, 1, 2}

(***************************************************************************)
(* Helpers                                                                 *)
(***************************************************************************)
\* all sequences over S of length lo..hi
SeqsOf(S, lo, hi) == UNION {[1..n -> S] : n \in lo..hi}

IsInjective(s) == \A i, j \in DOMAIN s : s[i] = s[j] => i = j

\* JavaScript's a ^ b on non-negative integers
RECURSIVE Xor(_, _)
Xor(a, b) ==
  IF a = 0 THEN b
  ELSE IF b = 0 THEN a
  ELSE (((a % 2) + (b % 2)) % 2) + 2 * Xor(a \div 2, b \div 2)

(***************************************************************************)
(* AegisShamir: GF(256) arithmetic                                         *)
(***************************************************************************)
\* one pass of initTables' first loop: EXP_TABLE[i] = x; LOG_TABLE[x] = i;
\* x = x ^ (x << 1); if (x >= 256) x ^= 0x11b
initTablesStep(st) ==
  LET y == Xor(st.x, 2 * st.x)
  IN [i |-> st.i + 1,
      x |-> IF y >= 256 THEN Xor(y, 283) ELSE y,
      exp |-> [st.exp EXCEPT ![st.i] = st.x],
      log |-> [st.log EXCEPT ![st.x] = st.i]]

\* one pass of initTables' second loop: EXP_TABLE[i] = EXP_TABLE[i - 255]
initTablesWrap(st) ==
  [st EXCEPT !.i = st.i + 1, !.exp[st.i] = st.exp[st.i - 255]]

\* n passes of the first loop (first = TRUE) or of the second, from st; the
\* halves are evaluated before they are passed on
RECURSIVE initTablesLoop(_, _, _)
initTablesLoop(first, n, st) ==
  IF n = 0 THEN st
  ELSE IF n = 1 THEN (IF first THEN initTablesStep(st) ELSE initTablesWrap(st))
  ELSE CHOOSE out \in {initTablesLoop(first, n - (n \div 2), mid) :
                         mid \in {initTablesLoop(first, n \div 2, st)}} : TRUE

initTables ==
  LET fresh == [i |-> 0, x |-> 1,
                exp |-> [i \in 0..511 |-> 0], log |-> [i \in 0..255 |-> 0]]
      filled == initTablesLoop(TRUE, 255, fresh)
  IN initTablesLoop(FALSE, 512 - 255, filled)

EXP_TABLE == initTables.exp
LOG_TABLE == initTables.log

gfMul(a, b) ==
  IF a = 0 \/ b = 0 THEN 0 ELSE EXP_TABLE[LOG_TABLE[a] + LOG_TABLE[b]]

\* gfDiv throws 'Division by zero' for b = 0: callers test b first
gfDiv(a, b) ==
  IF a = 0 THEN 0 ELSE EXP_TABLE[(LOG_TABLE[a] - LOG_TABLE[b] + 255) % 255]

\* Horner's rule from the highest coefficient down; coeffs[1] is coeffs[0]
RECURSIVE evalFrom(_, _, _, _)
evalFrom(coeffs, x, i, result) ==
  IF i < 1 THEN result
  ELSE evalFrom(coeffs, x, i - 1, Xor(gfMul(result, x), coeffs[i]))

\* evaluatePolynomial with the loop started one coefficient too low
evaluatePolynomial_skipsLast(coeffs, x) == evalFrom(coeffs, x, Len(coeffs) - 1, 0)

evaluatePolynomial(coeffs, x) == evalFrom(coeffs, x, Len(coeffs), 0)

\* the inner loop of lagrangeInterpolate for point i: num and den over j # i
RECURSIVE lagrangeNumDen(_, _, _, _, _)
lagrangeNumDen(points, i, j, num, den) ==
  IF j > Len(points) THEN [num |-> num, den |-> den]
  ELSE IF j = i THEN lagrangeNumDen(points, i, j + 1, num, den)
  ELSE lagrangeNumDen(points, i, j + 1,
                      gfMul(num, points[j][1]),
                      gfMul(den, Xor(points[i][1], points[j][1])))

\* the outer loop; gfDiv(1, den) throws at the first point whose den is 0
RECURSIVE lagrangeFrom(_, _, _)
lagrangeFrom(points, i, result) ==
  IF i > Len(points) THEN [ok |-> TRUE, value |-> result]
  ELSE LET nd == lagrangeNumDen(points, i, 1, 1, 1)
       IN IF nd.den = 0 THEN [ok |-> FALSE, value |-> 0]
          ELSE lagrangeFrom(points, i + 1,
                 Xor(result, gfMul(gfMul(nd.num, gfDiv(1, nd.den)), points[i][2])))

\* lagrangeInterpolate that gives a byte where gfDiv would throw
lagrangeInterpolate_noThrow(points) ==
  [ok |-> TRUE, value |-> lagrangeFrom(points, 1, 0).value]

lagrangeInterpolate(points) == lagrangeFrom(points, 1, 0)

(***************************************************************************)
(* AegisShamir: split and combine                                          *)
(***************************************************************************)
\* the byte crypto.getRandomValues puts at coeffs[k] for byte byteIdx, in the
\* sampled outcome `seed` (seed 0: every coefficient is 0)
RandomByte(seed, byteIdx, k) == (seed * (17 + 31 * byteIdx + 101 * k)) % 256

\* coeffs for one byte: coeffs[0] = secret[byteIdx], the rest random
splitCoeffs(secret, threshold, seed, byteIdx) ==
  [k \in 1..threshold |->
     IF k = 1 THEN secret[byteIdx] ELSE RandomByte(seed, byteIdx, k - 1)]

splitError(numShares, threshold) ==
  IF threshold > numShares THEN "Threshold cannot exceed number of shares"
  ELSE IF threshold < 2 THEN "Threshold must be at least 2"
  ELSE IF numShares > 254 THEN "Maximum 254 shares supported"
  ELSE "none"

\* split with the polynomial evaluated at shareIdx - 1 instead of shareIdx
split_xFromZero(secret, numShares, threshold, seed) ==
  [shareIdx \in 1..numShares |->
     [id |-> shareIdx,
      threshold |-> threshold,
      totalShares |-> numShares,
      data |-> [byteIdx \in 1..Len(secret) |->
                  evaluatePolynomial(
                    splitCoeffs(secret, threshold, seed, byteIdx), shareIdx - 1)]]]

\* the shares split returns when it does not throw
split(secret, numShares, threshold, seed) ==
  [shareIdx \in 1..numShares |->
     [id |-> shareIdx,
      threshold |-> threshold,
      totalShares |-> numShares,
      data |-> [byteIdx \in 1..Len(secret) |->
                  evaluatePolynomial(
                    splitCoeffs(secret, threshold, seed, byteIdx), shareIdx)]]]

\* the points combine builds for one byte: [s.id, s.data[byteIdx]]
combinePoints(shares, byteIdx) ==
  [n \in 1..Len(shares) |-> <<shares[n].id, shares[n].data[byteIdx]>>]

NoResult == [ok |-> FALSE, error |-> "not called", secret |-> <<>>]

\* combine that refuses fewer shares than the threshold they carry
combine_needsThreshold(shares) ==
  IF Len(shares) < shares[1].threshold
  THEN [ok |-> FALSE, error |-> "Need at least 2 shares", secret |-> <<>>]
  ELSE LET secretLength == Len(shares[1].data)
           bytes == [byteIdx \in 1..secretLength |->
                       lagrangeInterpolate(combinePoints(shares, byteIdx))]
       IN IF \E byteIdx \in 1..secretLength : ~bytes[byteIdx].ok
          THEN [ok |-> FALSE, error |-> "Division by zero", secret |-> <<>>]
          ELSE [ok |-> TRUE, error |-> "none",
                secret |-> [byteIdx \in 1..secretLength |-> bytes[byteIdx].value]]

combine(shares) ==
  IF Len(shares) < 2
  THEN [ok |-> FALSE, error |-> "Need at least 2 shares", secret |-> <<>>]
  ELSE LET secretLength == Len(shares[1].data)
           bytes == [byteIdx \in 1..secretLength |->
                       lagrangeInterpolate(combinePoints(shares, byteIdx))]
       IN IF \E byteIdx \in 1..secretLength : ~bytes[byteIdx].ok
          THEN [ok |-> FALSE, error |-> "Division by zero", secret |-> <<>>]
          ELSE [ok |-> TRUE, error |-> "none",
                secret |-> [byteIdx \in 1..secretLength |-> bytes[byteIdx].value]]

(***************************************************************************)
(* AegisCheckin: isOverdue and getEscalationLevel                          *)
(***************************************************************************)
\* 1000 * 60 * 60, the milliseconds of one hour
MS_PER_HOUR == 3600000

\* a lastCheckinTime that is null, undefined or '' (falsy)
Absent == [present |-> FALSE, t |-> 0]
At(t) == [present |-> TRUE, t |-> t]

JsNum(n) == [kind |-> "number", n |-> n]
JsInfinity == [kind |-> "Infinity", n |-> 0]
JsMinusInfinity == [kind |-> "-Infinity", n |-> 0]
JsNaN == [kind |-> "NaN", n |-> 0]

\* Math.floor(elapsed / intervalHours) with elapsed = (now - last) / MS_PER_HOUR,
\* for a whole number of hours intervalHours >= 0; a division by 0 is
\* JavaScript's: Infinity, -Infinity or NaN
missedIntervals(lastMs, intervalHours, nowMs) ==
  IF intervalHours = 0
  THEN IF nowMs - lastMs > 0 THEN JsInfinity
       ELSE IF nowMs - lastMs < 0 THEN JsMinusInfinity
       ELSE JsNaN
  ELSE JsNum((nowMs - lastMs) \div (MS_PER_HOUR * intervalHours))

\* getEscalationLevel reduced modulo 4: the level wraps after full escalation
getEscalationLevel_wraps(lastCheckinTime, intervalHours, nowMs) ==
  IF ~lastCheckinTime.present THEN 4
  ELSE LET m == missedIntervals(lastCheckinTime.t, intervalHours, nowMs)
       IN IF m.kind = "number" /\ m.n >= 0 THEN m.n % 4
          ELSE IF m.kind = "Infinity" THEN 4 ELSE 0

\* getEscalationLevel with Math.ceil in place of Math.floor
getEscalationLevel_ceil(lastCheckinTime, intervalHours, nowMs) ==
  IF ~lastCheckinTime.present THEN 4
  ELSE LET m == missedIntervals(lastCheckinTime.t + 1 - MS_PER_HOUR * intervalHours,
                                intervalHours, nowMs)
       IN IF m.kind = "-Infinity" \/ (m.kind = "number" /\ m.n <= 0) THEN 0
          ELSE IF m.kind = "number" /\ m.n <= 3 THEN m.n
          ELSE 4

\* nowMs is the value of new Date() inside the call
getEscalationLevel(lastCheckinTime, intervalHours, nowMs) ==
  IF ~lastCheckinTime.present THEN 4
  ELSE LET m == missedIntervals(lastCheckinTime.t, intervalHours, nowMs)
       IN IF m.kind = "-Infinity" \/ (m.kind = "number" /\ m.n <= 0) THEN 0
          ELSE IF m.kind = "number" /\ m.n = 1 THEN 1
          ELSE IF m.kind = "number" /\ m.n = 2 THEN 2
          ELSE IF m.kind = "number" /\ m.n = 3 THEN 3
          ELSE 4

\* isOverdue with elapsed >= intervalHours
isOverdue_atLeast(lastCheckinTime, intervalHours, nowMs) ==
  IF ~lastCheckinTime.present THEN TRUE
  ELSE nowMs - lastCheckinTime.t >= intervalHours * MS_PER_HOUR

\* elapsed > intervalHours, in milliseconds
isOverdue(lastCheckinTime, intervalHours, nowMs) ==
  IF ~lastCheckinTime.present THEN TRUE
  ELSE nowMs - lastCheckinTime.t > intervalHours * MS_PER_HOUR


NotEvaluated == [done |-> FALSE, at |-> 0, level |-> 0, overdue |-> FALSE]

\* the escalation variables while another component runs
EscalationIdle ==
  /\ esNow = 0
  /\ esLast = Absent
  /\ esInterval = 0
  /\ esEval = NotEvaluated

(***************************************************************************)
(* AegisGitHub: the heartbeat record and the store behind the GitHub       *)
(* contents API                                                            *)
(***************************************************************************)
\* the two browsers that run performHeartbeat against the same repository
Clients == {"a", "b"}

\* localStorage of each browser: aegis_github_config (pat, owner, repo,
\* guardians, siteUrl) and aegis_config (interval, packageId); interval 0
\* stands for an aegis_config without interval
LocalConfig ==
  [a |-> [guardians |-> <<"g1">>, siteUrl |-> "https://a.example",
          interval |-> 24, packageId |-> "0123456789abcdef"],
   b |-> [guardians |-> <<>>, siteUrl |-> "",
          interval |-> 0, packageId |-> ""]]

\* the first 8 characters of a package id
Substring8(s) == IF s = "0123456789abcdef" THEN "01234567" ELSE s

\* heartbeat.json written by an earlier setup: guardians, a short package id,
\* an escalation state set by a guardian and a field of a later version
StoredHeartbeat ==
  [aegis_heartbeat |-> TRUE, version |-> "1.1.0", last_checkin |-> 0,
   interval_hours |-> 72, guardians |-> <<"g1", "g2">>,
   package_id_short |-> "89abcdef", escalation_state |-> "ALERT",
   site_url |-> "https://old.example", extra |-> "note"]

\* a heartbeat.json that parses but carries no aegis_heartbeat tag
ForeignDocument ==
  [aegis_heartbeat |-> FALSE, version |-> "", last_checkin |-> 0,
   interval_hours |-> 0, guardians |-> <<>>, package_id_short |-> "",
   escalation_state |-> "", site_url |-> "", extra |-> "foreign"]

NoDocument == [ForeignDocument EXCEPT !.extra = "none"]

\* the file heartbeat.json in the repository: version 0 is no file; parses
\* says whether JSON.parse accepts the stored text
NoFile == [version |-> 0, parses |-> FALSE, doc |-> NoDocument]
InitialStores ==
  {NoFile,
   [version |-> 1, parses |-> TRUE, doc |-> StoredHeartbeat],
   [version |-> 1, parses |-> TRUE, doc |-> ForeignDocument],
   [version |-> 1, parses |-> FALSE, doc |-> NoDocument]}

\* what getHeartbeat returns: null, or { content, sha }
NullExisting == [found |-> FALSE, doc |-> NoDocument, sha |-> 0]

\* getHeartbeat's handling of the GET response: 404 gives null, and so does
\* every failure caught by its try/catch (fetch rejecting, a status that is
\* not ok, stored text that JSON.parse rejects)
getHeartbeat(resp) ==
  IF resp.kind = "ok" /\ resp.parses
  THEN [found |-> TRUE, doc |-> resp.doc, sha |-> resp.sha]
  ELSE NullExisting

\* performHeartbeat that always builds the record from the local config
heartbeatData_rebuilt(existing, cfg, now) ==
  [aegis_heartbeat |-> TRUE, version |-> "1.0.0", last_checkin |-> now,
   interval_hours |-> IF cfg.interval # 0 THEN cfg.interval ELSE 48,
   guardians |-> cfg.guardians,
   package_id_short |-> Substring8(cfg.packageId),
   escalation_state |-> "OK", site_url |-> cfg.siteUrl,
   extra |-> "none"]

\* performHeartbeat lines 139-155: the record to write
heartbeatData(existing, cfg, now) ==
  IF existing.found /\ existing.doc.aegis_heartbeat
  THEN [existing.doc EXCEPT
          !.last_checkin = now,
          !.escalation_state = "OK",
          !.interval_hours = IF cfg.interval # 0 THEN cfg.interval ELSE @]
  ELSE [aegis_heartbeat |-> TRUE, version |-> "1.0.0", last_checkin |-> now,
        interval_hours |-> IF cfg.interval # 0 THEN cfg.interval ELSE 48,
        guardians |-> cfg.guardians,
        package_id_short |-> Substring8(cfg.packageId),
        escalation_state |-> "OK", site_url |-> cfg.siteUrl,
        extra |-> "none"]

\* a sha re-read from the store just before the PUT, instead of the one read
\* with the content
updateHeartbeatSha_refetched(existingSha, storeSha) == storeSha

\* the sha updateHeartbeat puts in the request body: the one its caller read
\* (0: none), whatever the store holds by now
updateHeartbeatSha(existingSha, storeSha) == existingSha

\* the contents API's answer to PUT: without sha the file is created, and the
\* request is refused (422) if it exists; with sha the file is replaced if
\* the sha is the current one, and the request is refused (409) otherwise
storePutStatus(store, sha) ==
  IF sha = 0 THEN (IF store.version = 0 THEN 201 ELSE 422)
  ELSE IF store.version = sha THEN 200 ELSE 409

NoResponse == [kind |-> "none", status |-> 0, parses |-> FALSE,
               doc |-> NoDocument, sha |-> 0]
NoRequest == [doc |-> NoDocument, sha |-> 0]
NoReturn == [success |-> FALSE, error |-> "none", timestamp |-> 0]
\* what the model remembers of a run: the store version when the GET was
\* answered, whether the read or the write failed, whether the store had
\* changed when the PUT was answered, and the version an applied PUT replaced
NoTrace == [readVersion |-> 0, readFailed |-> FALSE, writeFailed |-> FALSE,
            changed |-> FALSE, applied |-> FALSE, replaced |-> 0]

HeartbeatIdle ==
  /\ hbStore = NoFile
  /\ hbClock = 0
  /\ hbPc = [c \in Clients |-> "idle"]
  /\ hbExisting = [c \in Clients |-> NullExisting]
  /\ hbRequest = [c \in Clients |-> NoRequest]
  /\ hbResponse = [c \in Clients |-> NoResponse]
  /\ hbReturn = [c \in Clients |-> NoReturn]
  /\ hbTrace = [c \in Clients |-> NoTrace]

(***************************************************************************)
(* AegisCrypto: the envelope.  PBKDF2 and AES-GCM are the browser's; they  *)
(* are modelled by small functions with the contract the code relies on:   *)
(* the key is a function of (passphrase, salt), decryption under the same  *)
(* key and iv inverts encryption, and the 16 byte tag changes with the     *)
(* key, the iv and every bit of the ciphertext.                            *)
(***************************************************************************)
SALT_LENGTH == 16
IV_LENGTH == 12
\* AES-GCM's tag length in bytes when tagLength is not given (128 bits)
TAG_LENGTH == 16

RECURSIVE SumRange(_, _, _)
SumRange(s, a, b) ==
  IF a > b THEN 0
  ELSE IF a = b THEN s[a]
  ELSE SumRange(s, a, (a + b) \div 2) + SumRange(s, ((a + b) \div 2) + 1, b)
SumSeq(s) == SumRange(s, 1, Len(s))

\* the passphrases typed, and the number their UTF-8 bytes stand for
Passphrases == {"correct-horse", "wrong-horse"}
PassCode(p) == IF p = "correct-horse" THEN 11 ELSE IF p = "wrong-horse" THEN 29 ELSE 0

\* the outcomes of crypto.getRandomValues(new Uint8Array(n)) sampled
RandomBytes(n) == {[i \in 1..n |-> 0], [i \in 1..n |-> (37 * i) % 256]}

\* crypto.subtle.deriveKey: the key PBKDF2 derives from passphrase and salt
deriveKey(passphrase, salt) == [passphrase |-> passphrase, salt |-> salt]

KeyNum(key) == (PassCode(key.passphrase) + SumSeq(key.salt)) % 256

\* the byte AES-GCM's key stream has at position i
gcmStream(key, iv, i) == (KeyNum(key) + SumSeq(iv) + 7 * i) % 256

gcmTag(key, iv, body) ==
  LET sum == 3 * KeyNum(key) + SumSeq(iv) + SumSeq(body)
  IN [j \in 1..TAG_LENGTH |-> (sum + j) % 256]

\* crypto.subtle.encrypt({ name: 'AES-GCM', iv }, key, data): body, then tag
gcmEncrypt(key, iv, data) ==
  LET body == [i \in 1..Len(data) |-> Xor(data[i], gcmStream(key, iv, i))]
  IN body \o gcmTag(key, iv, body)

OperationError == [ok |-> FALSE, error |-> "OperationError", plaintext |-> <<>>]

\* crypto.subtle.decrypt: rejects with OperationError unless the tag matches
gcmDecrypt(key, iv, ciphertext) ==
  IF Len(ciphertext) < TAG_LENGTH THEN OperationError
  ELSE LET n == Len(ciphertext) - TAG_LENGTH
           body == SubSeq(ciphertext, 1, n)
           tag == SubSeq(ciphertext, n + 1, Len(ciphertext))
       IN IF tag # gcmTag(key, iv, body) THEN OperationError
          ELSE [ok |-> TRUE, error |-> "none",
                plaintext |-> [i \in 1..n |-> Xor(body[i], gcmStream(key, iv, i))]]

\* encrypt(data, passphrase), with the salt and iv getRandomValues gave
encrypt(data, passphrase, salt, iv) ==
  [salt |-> salt, iv |-> iv,
   ciphertext |-> gcmEncrypt(deriveKey(passphrase, salt), iv, data)]

\* decrypt that hands back the decrypted body without the tag being checked
decrypt_unverified(encryptedData, passphrase) ==
  LET key == deriveKey(passphrase, encryptedData.salt)
      n == Len(encryptedData.ciphertext) - TAG_LENGTH
  IN [ok |-> TRUE, error |-> "none",
      plaintext |-> [i \in 1..n |->
         Xor(encryptedData.ciphertext[i], gcmStream(key, encryptedData.iv, i))]]

\* decrypt(encryptedData, passphrase): a rejection of crypto.subtle.decrypt
\* goes to the caller as it is
decrypt(encryptedData, passphrase) ==
  gcmDecrypt(deriveKey(passphrase, encryptedData.salt),
             encryptedData.iv, encryptedData.ciphertext)

\* packed.set(salt, 0); packed.set(iv, salt.length);
\* packed.set(ciphertext, salt.length + iv.length)
packEncrypted(e) ==
  [i \in 1..(Len(e.salt) + Len(e.iv) + Len(e.ciphertext)) |->
     IF i <= Len(e.salt) THEN e.salt[i]
     ELSE IF i <= Len(e.salt) + Len(e.iv) THEN e.iv[i - Len(e.salt)]
     ELSE e.ciphertext[i - Len(e.salt) - Len(e.iv)]]

\* Uint8Array.slice(begin, end) on a 0-based array held as a 1-based sequence
Slice(packed, begin, end) ==
  SubSeq(packed, begin + 1, IF end < Len(packed) THEN end ELSE Len(packed))

\* unpackEncrypted with the ciphertext taken from one byte too far
unpackEncrypted_offByOne(packed) ==
  [salt |-> Slice(packed, 0, SALT_LENGTH),
   iv |-> Slice(packed, SALT_LENGTH, SALT_LENGTH + IV_LENGTH),
   ciphertext |-> Slice(packed, SALT_LENGTH + IV_LENGTH + 1, Len(packed))]

unpackEncrypted(packed) ==
  [salt |-> Slice(packed, 0, SALT_LENGTH),
   iv |-> Slice(packed, SALT_LENGTH, SALT_LENGTH + IV_LENGTH),
   ciphertext |-> Slice(packed, SALT_LENGTH + IV_LENGTH, Len(packed))]

\* encryptFile and decryptFile
encryptFile(data, passphrase, salt, iv) ==
  packEncrypted(encrypt(data, passphrase, salt, iv))
decryptFile(packed, passphrase) == decrypt(unpackEncrypted(packed), passphrase)

\* the byte b with bit number bit flipped
FlipBit(b, bit) == Xor(b, 2 ^ bit)

NoEnvelope == [salt |-> <<>>, iv |-> <<>>, ciphertext |-> <<>>]
NotDecrypted == [ok |-> FALSE, error |-> "not called", plaintext |-> <<>>]

CryptoIdle ==
  /\ crPlain = <<>>
  /\ crPass = ""
  /\ crEnvelope = NoEnvelope
  /\ crPacked = <<>>
  /\ crTamper = "none"
  /\ crStage = "empty"
  /\ crDecPass = ""
  /\ crResult = NotDecrypted

(***************************************************************************)
(* AegisCheckin: texts.  A string is the sequence of its character codes,  *)
(* so that JSON.stringify, btoa, atob, JSON.parse and the hex form of a    *)
(* digest are computed character by character.                             *)
(***************************************************************************)
\* '0'..'9', 'a'..'f': the character of one hex digit, as toString(16) gives
HexDigit(d) == IF d < 10 THEN 48 + d ELSE 87 + d

\* bytes.map(b => b.toString(16).padStart(2, '0')).join('')
toHex(bytes) ==
  [k \in 1..(2 * Len(bytes)) |->
     IF k % 2 = 1 THEN HexDigit(bytes[(k + 1) \div 2] \div 16)
     ELSE HexDigit(bytes[k \div 2] % 16)]

\* generateId(length), with the bytes getRandomValues gave
generateId(bytes) == toHex(bytes)

\* new TextEncoder().encode(text): UTF-8
RECURSIVE utf8Encode(_)
utf8Encode(text) ==
  IF text = <<>> THEN <<>>
  ELSE IF Len(text) = 1
  THEN LET c == text[1]
       IN IF c < 128 THEN <<c>>
          ELSE IF c < 2048 THEN <<192 + (c \div 64), 128 + (c % 64)>>
          ELSE <<224 + (c \div 4096), 128 + ((c \div 64) % 64), 128 + (c % 64)>>
  ELSE utf8Encode(SubSeq(text, 1, Len(text) \div 2))
       \o utf8Encode(SubSeq(text, (Len(text) \div 2) + 1, Len(text)))

\* crypto.subtle.digest('SHA-256', buffer), the browser's: a 32 byte digest
\* that is a function of every byte and of the length
RECURSIVE digestSum(_, _, _)
digestSum(bytes, a, b) ==
  IF a > b THEN 0
  ELSE IF a = b THEN (bytes[a] + 1) * (1 + ((a * 37) % 101))
  ELSE (digestSum(bytes, a, (a + b) \div 2)
        + digestSum(bytes, ((a + b) \div 2) + 1, b)) % 65521
digest(bytes) ==
  LET h == (digestSum(bytes, 1, Len(bytes)) + 7 * Len(bytes)) % 65521
  IN [k \in 1..32 |-> (h * (2 * k + 1) + (h \div 256) * k + k * k) % 256]

\* sha256(data) for a string: the hex form of the digest of its UTF-8 bytes
sha256(text) == toHex(digest(utf8Encode(text)))

\* the base64 alphabet
B64Char(x) ==
  IF x < 26 THEN 65 + x
  ELSE IF x < 52 THEN 97 + (x - 26)
  ELSE IF x < 62 THEN 48 + (x - 52)
  ELSE IF x = 62 THEN 43 ELSE 47
B64Chars == {B64Char(x) : x \in 0..63}
B64Val(c) == CHOOSE x \in 0..63 : B64Char(x) = c

\* btoa(text): throws InvalidCharacterError for a character above U+00FF
btoa(text) ==
  IF \E i \in 1..Len(text) : text[i] > 255
  THEN [ok |-> FALSE, error |-> "InvalidCharacterError", text |-> <<>>]
  ELSE
    LET n == Len(text)
        byte(i) == IF i <= n THEN text[i] ELSE 0
        group(g) == byte(3 * g + 1) * 65536 + byte(3 * g + 2) * 256 + byte(3 * g + 3)
        out(k) ==
          LET g == (k - 1) \div 4
              pos == (k - 1) % 4
          IN IF pos >= 2 /\ 3 * g + pos > n THEN 61
             ELSE B64Char((group(g) \div (64 ^ (3 - pos))) % 64)
    IN [ok |-> TRUE, error |-> "none",
        text |-> [k \in 1..(4 * ((n + 2) \div 3)) |-> out(k)]]

\* atob(text): forgiving-base64 decode; throws InvalidCharacterError for a
\* character outside the alphabet and for a length of 1 modulo 4
atob(text) ==
  LET n0 == Len(text)
      pad == IF n0 % 4 = 0 /\ n0 >= 2 /\ text[n0] = 61
             THEN (IF text[n0 - 1] = 61 THEN 2 ELSE 1) ELSE 0
      n == n0 - pad
      val(i) == IF i <= n THEN B64Val(text[i]) ELSE 0
      group(g) == val(4 * g + 1) * 262144 + val(4 * g + 2) * 4096
                  + val(4 * g + 3) * 64 + val(4 * g + 4)
      out(j) == (group((j - 1) \div 3) \div (256 ^ (2 - ((j - 1) % 3)))) % 256
  IN IF n % 4 = 1 \/ \E i \in 1..n : text[i] \notin B64Chars
     THEN [ok |-> FALSE, error |-> "InvalidCharacterError", text |-> <<>>]
     ELSE [ok |-> TRUE, error |-> "none",
           text |-> [j \in 1..((n * 6) \div 8) |-> out(j)]]

\* n as decimal digits, padded with zeros to width w
RECURSIVE padDigits(_, _)
padDigits(n, w) ==
  IF w = 0 THEN <<>> ELSE Append(padDigits(n \div 10, w - 1), 48 + (n % 10))

\* Date.prototype.toISOString for an instant of January 2024, held as the
\* milliseconds since 2024-01-01T00:00:00.000Z
toISOString(ms) ==
  <<50, 48, 50, 52, 45, 48, 49, 45>> \o padDigits((ms \div 86400000) + 1, 2)
    \o <<84>> \o padDigits((ms \div 3600000) % 24, 2)
    \o <<58>> \o padDigits((ms \div 60000) % 60, 2)
    \o <<58>> \o padDigits((ms \div 1000) % 60, 2)
    \o <<46>> \o padDigits(ms % 1000, 3) \o <<90>>

\* the digits of text from position a to b as a number, -1 if one is no digit
RECURSIVE digitsValue(_, _, _)
digitsValue(text, a, b) ==
  IF a > b THEN 0
  ELSE LET rest == digitsValue(text, a, b - 1)
       IN IF rest < 0 \/ text[b] < 48 \/ text[b] > 57 THEN -1
          ELSE rest * 10 + (text[b] - 48)

\* new Date(value).getTime() for the texts toISOString gives: the instant,
\* and NaN for undefined and for every other text sampled
NaN == [nan |-> TRUE, value |-> 0]
Num(v) == [nan |-> FALSE, value |-> v]
dateParse(v) ==
  IF v.kind # "string" \/ Len(v.text) # 24 THEN NaN
  ELSE LET t == v.text
           day == digitsValue(t, 9, 10)
           hh == digitsValue(t, 12, 13)
           mm == digitsValue(t, 15, 16)
           ss == digitsValue(t, 18, 19)
           ms == digitsValue(t, 21, 23)
       IN IF /\ SubSeq(t, 1, 8) = <<50, 48, 50, 52, 45, 48, 49, 45>>
             /\ <<t[11], t[14], t[17], t[20], t[24]>> = <<84, 58, 58, 46, 90>>
             /\ day >= 1 /\ day <= 24 /\ hh >= 0 /\ hh < 24
             /\ mm >= 0 /\ mm < 60 /\ ss >= 0 /\ ss < 60 /\ ms >= 0
          THEN Num((day - 1) * 86400000 + hh * 3600000 + mm * 60000
                   + ss * 1000 + ms)
          ELSE NaN

\* Math.round(ageHours * 10) / 10, held in tenths of an hour
ageHours(now, tokenTime) ==
  IF tokenTime.nan THEN NaN
  ELSE Num(((now - tokenTime.value) + 180000) \div 360000)

\* JSON.stringify of a string: quotes, with '"' and '\' escaped (the texts
\* sampled hold no control character)
RECURSIVE jsonEscape(_)
jsonEscape(text) ==
  IF text = <<>> THEN <<>>
  ELSE IF Len(text) = 1
  THEN (IF text[1] \in {34, 92} THEN <<92, text[1]>> ELSE text)
  ELSE jsonEscape(SubSeq(text, 1, Len(text) \div 2))
       \o jsonEscape(SubSeq(text, (Len(text) \div 2) + 1, Len(text)))
jsonQuote(text) == <<34>> \o jsonEscape(text) \o <<34>>

\* JSON.stringify({ t, n, p, _d }): {"t":"..","n":"..","p":"..","_d":".."}
stringifyPayload(payload) ==
  <<123, 34, 116, 34, 58>> \o jsonQuote(payload.t)
    \o <<44, 34, 110, 34, 58>> \o jsonQuote(payload.n)
    \o <<44, 34, 112, 34, 58>> \o jsonQuote(payload.p)
    \o <<44, 34, 95, 100, 34, 58>> \o jsonQuote(payload.d)
    \o <<125>>

\* JavaScript values: strings, numbers, booleans, null and undefined, with
\* their text, and objects and arrays, with their members in order (the
\* keys of an array are its indices)
JsValue(kind, text) == [kind |-> kind, text |-> text, members |-> <<>>]
JsObject(kind, members) == [kind |-> kind, text |-> <<>>, members |-> members]
Undefined == JsValue("undefined", <<>>)
Str(text) == JsValue("string", text)

\* String(n) for a number n >= 0
RECURSIVE toDecimal(_)
toDecimal(n) ==
  IF n < 10 THEN <<48 + n>> ELSE Append(toDecimal(n \div 10), 48 + (n % 10))
ParseFail == [ok |-> FALSE, kind |-> "none", text |-> <<>>, members |-> <<>>,
              next |-> 0]

\* the position of the quote that closes the JSON string whose characters
\* start at position i; 0 if the string is not well formed
RECURSIVE stringEnd(_, _)
stringEnd(s, i) ==
  IF i + 7 <= Len(s) /\ \A k \in i..(i + 7) : s[k] >= 32 /\ s[k] \notin {34, 92}
  THEN stringEnd(s, i + 8)
  ELSE IF i > Len(s) \/ s[i] < 32 THEN 0
  ELSE IF s[i] = 34 THEN i
  ELSE IF s[i] = 92
  THEN (IF i + 1 <= Len(s) /\ s[i + 1] \in {34, 92}
        THEN stringEnd(s, i + 2) ELSE 0)
  ELSE stringEnd(s, i + 1)

\* the characters a well-formed JSON string body stands for
RECURSIVE jsonUnescape(_)
jsonUnescape(raw) ==
  IF raw = <<>> THEN <<>>
  ELSE IF Len(raw) >= 8 /\ \A k \in 1..8 : raw[k] # 92
  THEN SubSeq(raw, 1, 8) \o jsonUnescape(SubSeq(raw, 9, Len(raw)))
  ELSE IF Head(raw) = 92 THEN <<raw[2]>> \o jsonUnescape(Tail(Tail(raw)))
  ELSE <<Head(raw)>> \o jsonUnescape(Tail(raw))

\* the JSON string whose characters start at position i
scanString(s, i) ==
  LET e == stringEnd(s, i)
  IN IF e = 0 THEN ParseFail
     ELSE [ok |-> TRUE, kind |-> "string",
           text |-> jsonUnescape(SubSeq(s, i, e - 1)), members |-> <<>>,
           next |-> e + 1]

\* the position after the digits that start at position i
RECURSIVE digitsEnd(_, _)
digitsEnd(s, i) ==
  IF i <= Len(s) /\ s[i] >= 48 /\ s[i] <= 57 THEN digitsEnd(s, i + 1) ELSE i

\* the JSON number at position i: digits, without a leading zero
scanNumber(s, i) ==
  LET e == digitsEnd(s, i)
  IN IF e = i \/ (e > i + 1 /\ s[i] = 48) THEN ParseFail
     ELSE [ok |-> TRUE, kind |-> "number", text |-> SubSeq(s, i, e - 1),
           members |-> <<>>, next |-> e]

\* a JSON string, number, true, false or null at position i
parseAtom(s, i) ==
  IF i > Len(s) THEN ParseFail
  ELSE IF s[i] = 34 THEN scanString(s, i + 1)
  ELSE IF i + 3 <= Len(s) /\ SubSeq(s, i, i + 3) = <<110, 117, 108, 108>>
  THEN [ok |-> TRUE, kind |-> "null", text |-> <<>>, members |-> <<>>,
        next |-> i + 4]
  ELSE IF i + 3 <= Len(s) /\ SubSeq(s, i, i + 3) = <<116, 114, 117, 101>>
  THEN [ok |-> TRUE, kind |-> "boolean", text |-> <<116, 114, 117, 101>>,
        members |-> <<>>, next |-> i + 4]
  ELSE IF i + 4 <= Len(s) /\ SubSeq(s, i, i + 4) = <<102, 97, 108, 115, 101>>
  THEN [ok |-> TRUE, kind |-> "boolean", text |-> <<102, 97, 108, 115, 101>>,
        members |-> <<>>, next |-> i + 5]
  ELSE scanNumber(s, i)

\* a JSON value at position i; the members of an object up to its closing
\* brace; the items of an array up to its closing bracket
RECURSIVE parseValue(_, _), parseMembers(_, _, _), parseItems(_, _, _)
parseValue(s, i) ==
  IF i > Len(s) THEN ParseFail
  ELSE IF s[i] = 123
  THEN (IF i + 1 <= Len(s) /\ s[i + 1] = 125
        THEN [ok |-> TRUE, kind |-> "object", text |-> <<>>,
              members |-> <<>>, next |-> i + 2]
        ELSE parseMembers(s, i + 1, <<>>))
  ELSE IF s[i] = 91
  THEN (IF i + 1 <= Len(s) /\ s[i + 1] = 93
        THEN [ok |-> TRUE, kind |-> "array", text |-> <<>>,
              members |-> <<>>, next |-> i + 2]
        ELSE parseItems(s, i + 1, <<>>))
  ELSE parseAtom(s, i)

parseMembers(s, i, acc) ==
  IF i > Len(s) \/ s[i] # 34 THEN ParseFail
  ELSE LET key == scanString(s, i + 1)
       IN IF ~key.ok \/ key.next > Len(s) \/ s[key.next] # 58 THEN ParseFail
          ELSE LET val == parseValue(s, key.next + 1)
                   all == Append(acc, [key |-> key.text,
                                       value |-> [kind |-> val.kind,
                                                  text |-> val.text,
                                                  members |-> val.members]])
               IN IF ~val.ok \/ val.next > Len(s) THEN ParseFail
                  ELSE IF s[val.next] = 125
                  THEN [ok |-> TRUE, kind |-> "object", text |-> <<>>,
                        members |-> all, next |-> val.next + 1]
                  ELSE IF s[val.next] = 44
                  THEN parseMembers(s, val.next + 1, all)
                  ELSE ParseFail

parseItems(s, i, acc) ==
  LET val == parseValue(s, i)
      all == Append(acc, [key |-> toDecimal(Len(acc)),
                          value |-> [kind |-> val.kind, text |-> val.text,
                                     members |-> val.members]])
  IN IF ~val.ok \/ val.next > Len(s) THEN ParseFail
     ELSE IF s[val.next] = 93
     THEN [ok |-> TRUE, kind |-> "array", text |-> <<>>,
           members |-> all, next |-> val.next + 1]
     ELSE IF s[val.next] = 44 THEN parseItems(s, val.next + 1, all)
     ELSE ParseFail

\* JSON.parse(text) for texts without white space, fractions, exponents,
\* signs and escapes other than \" and \\; SyntaxError for everything else
JSONparse(s) ==
  LET v == parseValue(s, 1)
  IN IF v.ok /\ v.next = Len(s) + 1 THEN v ELSE ParseFail

\* JSON.stringify(value): members that are undefined are left out of an
\* object
RECURSIVE stringifyValue(_), stringifyMembers(_, _, _)
stringifyValue(v) ==
  IF v.kind = "string" THEN jsonQuote(v.text)
  ELSE IF v.kind = "null" THEN <<110, 117, 108, 108>>
  ELSE IF v.kind = "object"
  THEN <<123>> \o stringifyMembers(v.members, TRUE, TRUE) \o <<125>>
  ELSE IF v.kind = "array"
  THEN <<91>> \o stringifyMembers(v.members, FALSE, TRUE) \o <<93>>
  ELSE v.text

stringifyMembers(members, keyed, first) ==
  IF members = <<>> THEN <<>>
  ELSE IF keyed /\ Head(members).value.kind = "undefined"
  THEN stringifyMembers(Tail(members), keyed, first)
  ELSE (IF first THEN <<>> ELSE <<44>>)
       \o (IF keyed THEN jsonQuote(Head(members).key) \o <<58>> ELSE <<>>)
       \o stringifyValue(Head(members).value)
       \o stringifyMembers(Tail(members), keyed, FALSE)

\* value.key for a parsed value that is not null: the last member of that
\* name, undefined if there is none
getProperty(v, key) ==
  LET hits == {k \in 1..Len(v.members) : v.members[k].key = key}
  IN IF hits = {} THEN Undefined
     ELSE v.members[CHOOSE k \in hits : \A j \in hits : j <= k].value

\* String.prototype.toUpperCase on hex digits and ASCII letters
toUpperCase(text) ==
  [i \in 1..Len(text) |-> IF text[i] >= 97 /\ text[i] <= 122
                          THEN text[i] - 32 ELSE text[i]]

\* text.split('T')[0]
RECURSIVE beforeT(_)
beforeT(text) ==
  IF text = <<>> \/ Head(text) = 84 THEN <<>>
  ELSE <<Head(text)>> \o beforeT(Tail(text))

\* formatTokenDisplay(token): AEGIS-<8 hex digits in upper case>-<date>
formatTokenDisplay(token) ==
  <<65, 69, 71, 73, 83, 45>>
    \o toUpperCase(SubSeq(token.token, 1, IF Len(token.token) < 8
                                          THEN Len(token.token) ELSE 8))
    \o <<45>> \o beforeT(token.timestamp)

(***************************************************************************)
(* AegisShamir: exportShare and importShare                                *)
(***************************************************************************)
\* the property names and fixed strings of the share and package formats
Key(name) ==
  CASE name = "aegis_share" -> <<97, 101, 103, 105, 115, 95, 115, 104, 97, 114, 101>>
    [] name = "aegis_checkin" ->
         <<97, 101, 103, 105, 115, 95, 99, 104, 101, 99, 107, 105, 110>>
    [] name = "version" -> <<118, 101, 114, 115, 105, 111, 110>>
    [] name = "1.0.0" -> <<49, 46, 48, 46, 48>>
    [] name = "id" -> <<105, 100>>
    [] name = "threshold" -> <<116, 104, 114, 101, 115, 104, 111, 108, 100>>
    [] name = "totalShares" -> <<116, 111, 116, 97, 108, 83, 104, 97, 114, 101, 115>>
    [] name = "data" -> <<100, 97, 116, 97>>
    [] name = "created" -> <<99, 114, 101, 97, 116, 101, 100>>
    [] name = "true" -> <<116, 114, 117, 101>>
    [] name = "false" -> <<102, 97, 108, 115, 101>>
    [] name = "undefined" -> <<117, 110, 100, 101, 102, 105, 110, 101, 100>>
    [] name = "null" -> <<110, 117, 108, 108>>
    [] name = "filename" -> <<102, 105, 108, 101, 110, 97, 109, 101>>
    [] name = "size" -> <<115, 105, 122, 101>>
    [] name = "hash" -> <<104, 97, 115, 104>>
    [] name = "timestamp" -> <<116, 105, 109, 101, 115, 116, 97, 109, 112>>
    [] name = "name" -> <<110, 97, 109, 101>>
    [] name = "type" -> <<116, 121, 112, 101>>
    [] name = "metadata" -> <<109, 101, 116, 97, 100, 97, 116, 97>>
    [] name = "files" -> <<102, 105, 108, 101, 115>>
    [] name = "proofHashes" -> <<112, 114, 111, 111, 102, 72, 97, 115, 104, 101, 115>>
    [] name = "note" -> <<110, 111, 116, 101>>
    [] name = "test" -> <<116, 101, 115, 116>>
    [] OTHER -> <<>>

Member(name, value) == [key |-> Key(name), value |-> value]

\* bufferToBase64(buffer): String.fromCharCode of every byte, then btoa
bufferToBase64(bytes) == btoa(bytes).text

\* base64ToBuffer(base64): atob, then charCodeAt of every character
base64ToBuffer(base64) == atob(base64)

\* whether a value counts as true in a condition
truthy(v) ==
  CASE v.kind \in {"undefined", "null"} -> FALSE
    [] v.kind = "boolean" -> v.text = Key("true")
    [] v.kind = "number" -> v.text # <<48>>
    [] v.kind = "string" -> v.text # <<>>
    [] OTHER -> TRUE

\* String(value), as atob applies it to its argument
toText(v) ==
  CASE v.kind = "undefined" -> Key("undefined")
    [] v.kind = "null" -> Key("null")
    [] OTHER -> v.text

\* exportShare(share), at the instant new Date() gives
exportShare(share, now) ==
  JsObject("object",
    <<Member("aegis_share", JsValue("boolean", Key("true"))),
      Member("version", Str(Key("1.0.0"))),
      Member("id", JsValue("number", toDecimal(share.id))),
      Member("threshold", JsValue("number", toDecimal(share.threshold))),
      Member("totalShares", JsValue("number", toDecimal(share.totalShares))),
      Member("data", Str(bufferToBase64(share.data))),
      Member("created", Str(toISOString(now)))>>)

NoShare == [id |-> Undefined, threshold |-> Undefined,
            totalShares |-> Undefined, data |-> <<>>]
importThrew(error) == [ok |-> FALSE, error |-> error, share |-> NoShare]

\* the return of importShare, after the format tag was looked at
importedShare(parsed) ==
  LET data == base64ToBuffer(toText(getProperty(parsed, Key("data"))))
  IN IF ~data.ok THEN importThrew(data.error)
     ELSE [ok |-> TRUE, error |-> "none",
           share |-> [id |-> getProperty(parsed, Key("id")),
                      threshold |-> getProperty(parsed, Key("threshold")),
                      totalShares |-> getProperty(parsed, Key("totalShares")),
                      data |-> data.text]]

\* importShare without the look at the format tag
importShare_anyObject(shareJson) ==
  LET parsed == IF shareJson.form = "text" THEN JSONparse(shareJson.text)
                ELSE shareJson.value
  IN IF shareJson.form = "text" /\ ~parsed.ok THEN importThrew("SyntaxError")
     ELSE IF parsed.kind \in {"null", "undefined"} THEN importThrew("TypeError")
     ELSE importedShare(parsed)

\* importShare(shareJson), for a string or for an object
importShare(shareJson) ==
  LET parsed == IF shareJson.form = "text" THEN JSONparse(shareJson.text)
                ELSE shareJson.value
  IN IF shareJson.form = "text" /\ ~parsed.ok THEN importThrew("SyntaxError")
     ELSE IF parsed.kind \in {"null", "undefined"} THEN importThrew("TypeError")
     ELSE IF ~truthy(getProperty(parsed, Key("aegis_share")))
     THEN importThrew("Invalid AEGIS share format")
     ELSE importedShare(parsed)

NoExport == [form |-> "none", text |-> <<>>, value |-> Undefined, share |-> 0]
NotImported == importThrew("not called")

(***************************************************************************)
(* AegisCrypto: evidence packages                                          *)
(***************************************************************************)
\* encryptString(text, passphrase), with the salt and iv getRandomValues gave
encryptString(text, passphrase, salt, iv) ==
  packEncrypted(encrypt(utf8Encode(text), passphrase, salt, iv))

\* new TextDecoder().decode of the bytes at positions i..z, one sequence
\* after the other: UTF-8 sequences of up to 3 bytes; a byte that starts none
\* becomes U+FFFD
RECURSIVE utf8DecodeFrom(_, _, _)
utf8DecodeFrom(b, i, z) ==
  LET cont(j) == j <= z /\ b[j] >= 128 /\ b[j] < 192
  IN IF i > z THEN <<>>
     ELSE IF b[i] < 128 THEN <<b[i]>> \o utf8DecodeFrom(b, i + 1, z)
     ELSE IF b[i] >= 194 /\ b[i] < 224 /\ cont(i + 1)
     THEN <<(b[i] - 192) * 64 + (b[i + 1] - 128)>> \o utf8DecodeFrom(b, i + 2, z)
     ELSE IF /\ b[i] >= 224 /\ b[i] < 240 /\ cont(i + 1) /\ cont(i + 2)
             /\ (b[i] = 224 => b[i + 1] >= 160)
             /\ (b[i] = 237 => b[i + 1] < 160)
     THEN <<(b[i] - 224) * 4096 + (b[i + 1] - 128) * 64 + (b[i + 2] - 128)>>
          \o utf8DecodeFrom(b, i + 3, z)
     ELSE <<65533>> \o utf8DecodeFrom(b, i + 1, z)

\* the same, halved at a byte that is no continuation byte, where a
\* sequence always starts
RECURSIVE utf8DecodeRange(_, _, _)
utf8DecodeRange(b, a, z) ==
  LET starts == {j \in (((a + z) \div 2) + 1)..z : b[j] < 128 \/ b[j] >= 192}
      m == CHOOSE j \in starts : \A k \in starts : j <= k
  IN IF z - a < 8 \/ starts = {} THEN utf8DecodeFrom(b, a, z)
     ELSE utf8DecodeRange(b, a, m - 1) \o utf8DecodeRange(b, m, z)

\* new TextDecoder().decode(bytes)
utf8Decode(bytes) == utf8DecodeRange(bytes, 1, Len(bytes))

\* decryptString(packedBuffer, passphrase)
decryptString(packed, passphrase) ==
  LET decrypted == decryptFile(packed, passphrase)
  IN [ok |-> decrypted.ok, error |-> decrypted.error,
      text |-> utf8Decode(decrypted.plaintext)]

\* sha256(data) for an ArrayBuffer: the hex form of the digest of its bytes
sha256Buffer(bytes) == toHex(digest(bytes))

\* an array of the values of a sequence
JsArray(values) ==
  JsObject("array", [k \in 1..Len(values) |->
                       [key |-> toDecimal(k - 1), value |-> values[k]]])

\* the k-th outcome of getRandomValues(new Uint8Array(n)) within one call
draw(seed, k, n) == [i \in 1..n |-> (seed * (i + k)) % 256]

\* hashes.join(':')
RECURSIVE joinHashes(_)
joinHashes(hashes) ==
  IF hashes = <<>> THEN <<>>
  ELSE IF Len(hashes) = 1 THEN hashes[1]
  ELSE hashes[1] \o <<58>> \o joinHashes(Tail(hashes))

\* a proof hash record made of the digest of the file's name
proofHash_ofName(file, now) ==
  JsObject("object",
    <<Member("filename", Str(file.name)),
      Member("size", JsValue("number", toDecimal(Len(file.bytes)))),
      Member("hash", Str(sha256(file.name))),
      Member("timestamp", Str(toISOString(now)))>>)

\* createEvidencePackage lines 252-260: the proof hash record of one file
proofHash(file, now) ==
  JsObject("object",
    <<Member("filename", Str(file.name)),
      Member("size", JsValue("number", toDecimal(Len(file.bytes)))),
      Member("hash", Str(sha256Buffer(file.bytes))),
      Member("timestamp", Str(toISOString(now)))>>)

\* createEvidencePackage lines 263-269: the entry of one encrypted file
evidenceFile(file, passphrase, salt, iv) ==
  [name |-> file.name, type |-> file.type, size |-> Len(file.bytes),
   data |-> bufferToBase64(encryptFile(file.bytes, passphrase, salt, iv))]

\* createEvidencePackage lines 277-281: f => ({ name, type, size })
fileEntry(f) ==
  JsObject("object",
    <<Member("name", Str(f.name)), Member("type", Str(f.type)),
      Member("size", JsValue("number", toDecimal(f.size)))>>)

\* createEvidencePackage(files, metadata, passphrase), at the instant new
\* Date() gives and with the random bytes drawn from seed
createEvidencePackage(files, metadata, passphrase, now, seed) ==
  LET n == Len(files)
      proofHashes == [k \in 1..n |-> proofHash(files[k], now)]
      evidenceFiles ==
        [k \in 1..n |-> evidenceFile(files[k], passphrase,
                                     draw(seed, 2 * k - 1, SALT_LENGTH),
                                     draw(seed, 2 * k, IV_LENGTH))]
      id == generateId(draw(seed, 2 * n + 3, 16))
      created == toISOString(now)
      manifest ==
        JsObject("object",
          <<Member("version", Str(Key("1.0.0"))),
            Member("created", Str(created)),
            Member("id", Str(id)),
            Member("metadata", metadata),
            Member("files", JsArray([k \in 1..n |-> fileEntry(evidenceFiles[k])])),
            Member("proofHashes", JsArray(proofHashes))>>)
      manifestJson == stringifyValue(manifest)
      encryptedManifest ==
        encryptString(manifestJson, passphrase,
                      draw(seed, 2 * n + 1, SALT_LENGTH),
                      draw(seed, 2 * n + 2, IV_LENGTH))
      combinedProof ==
        sha256(joinHashes([k \in 1..n |->
                 getProperty(proofHashes[k], Key("hash")).text]))
  IN [package |-> [aegis |-> TRUE, version |-> Key("1.0.0"), id |-> id,
                   created |-> created,
                   manifest |-> bufferToBase64(encryptedManifest),
                   files |-> evidenceFiles,
                   combinedProofHash |-> combinedProof],
      proofHashes |-> proofHashes,
      combinedProofHash |-> combinedProof]

packageThrew(error) ==
  [ok |-> FALSE, error |-> error, manifest |-> Undefined, files |-> <<>>]

\* decryptEvidencePackage lines 320-327: one file of the package decrypted
decryptedFile(encFile, passphrase) ==
  LET encBuffer == base64ToBuffer(encFile.data)
      decBuffer == decryptFile(encBuffer.text, passphrase)
  IN [ok |-> encBuffer.ok /\ decBuffer.ok,
      error |-> IF ~encBuffer.ok THEN encBuffer.error ELSE decBuffer.error,
      file |-> [name |-> encFile.name, type |-> encFile.type,
                data |-> decBuffer.plaintext]]

\* decryptEvidencePackage(pkg, passphrase): the first step that throws ends
\* the call
decryptEvidencePackage(pkg, passphrase) ==
  LET manifestBuffer == base64ToBuffer(pkg.manifest)
      manifestJson == decryptString(manifestBuffer.text, passphrase)
      manifest == JSONparse(manifestJson.text)
      n == Len(pkg.files)
      decrypted == [k \in 1..n |-> decryptedFile(pkg.files[k], passphrase)]
      failed == {k \in 1..n : ~decrypted[k].ok}
      first == CHOOSE k \in failed : \A j \in failed : k <= j
  IN IF ~manifestBuffer.ok THEN packageThrew(manifestBuffer.error)
     ELSE IF ~manifestJson.ok THEN packageThrew(manifestJson.error)
     ELSE IF ~manifest.ok THEN packageThrew("SyntaxError")
     ELSE IF failed # {} THEN packageThrew(decrypted[first].error)
     ELSE [ok |-> TRUE, error |-> "none",
           manifest |-> [kind |-> manifest.kind, text |-> manifest.text,
                         members |-> manifest.members],
           files |-> [k \in 1..n |-> decrypted[k].file]]

NoPackageArgs == [files |-> <<>>, metadata |-> Undefined, passphrase |-> "",
                  now |-> 0, seed |-> 0]
NoPackage == [package |-> [aegis |-> FALSE, version |-> <<>>, id |-> <<>>,
                           created |-> <<>>, manifest |-> <<>>, files |-> <<>>,
                           combinedProofHash |-> <<>>],
              proofHashes |-> <<>>, combinedProofHash |-> <<>>]
NotOpened == [passphrase |-> "", result |-> packageThrew("not called")]

EvidenceIdle ==
  /\ evArgs = NoPackageArgs
  /\ evCreated = NoPackage
  /\ evOpened = NotOpened
  /\ evStage = "empty"

\* the keys of the objects generateToken and verifyToken return
TokenResultKeys == {"valid", "isDuress", "token", "displayCode"}
VerifyResultKeys == {"valid", "isDuress", "timestamp", "packageId", "ageHours",
                     "status"}

NoToken == [aegis_checkin |-> FALSE, version |-> "", timestamp |-> <<>>,
            package |-> <<>>, token |-> <<>>, payload |-> <<>>]

\* what generateToken gives when it gives no token: { valid: false }, or a
\* rejected promise
NoTokenResult(keys, threw) ==
  [keys |-> keys, threw |-> threw, valid |-> FALSE, isDuress |-> FALSE,
   token |-> NoToken, displayCode |-> <<>>]

\* generateToken with a marker of another length for a duress match
generateToken_longMarker(passphrase, duressPhrase, inputPhrase, packageId, now, nonceBytes) ==
  LET isDuress == inputPhrase = duressPhrase
      timestamp == toISOString(now)
      tokenString == stringifyPayload(
         [t |-> timestamp, n |-> generateId(nonceBytes), p |-> packageId,
          d |-> IF isDuress THEN <<116, 114, 117, 101>> ELSE <<48>>])
      encoded == btoa(tokenString)
      visibleToken == [aegis_checkin |-> TRUE, version |-> "1.0.0",
                       timestamp |-> timestamp, package |-> packageId,
                       token |-> sha256(tokenString), payload |-> encoded.text]
  IN IF ~(inputPhrase = passphrase \/ isDuress) THEN NoTokenResult({"valid"}, "none")
     ELSE IF ~encoded.ok THEN NoTokenResult({}, encoded.error)
     ELSE [keys |-> TokenResultKeys, threw |-> "none", valid |-> TRUE,
           isDuress |-> isDuress, token |-> visibleToken,
           displayCode |-> formatTokenDisplay(visibleToken)]

\* generateToken(passphrase, duressPhrase, inputPhrase, packageId), with the
\* instant new Date() gave and the bytes generateId(8) drew
generateToken(passphrase, duressPhrase, inputPhrase, packageId, now, nonceBytes) ==
  LET isDuress == inputPhrase = duressPhrase
      isValid == inputPhrase = passphrase \/ isDuress
      timestamp == toISOString(now)
      nonce == generateId(nonceBytes)
      payload == [t |-> timestamp, n |-> nonce, p |-> packageId,
                  d |-> IF isDuress THEN <<49>> ELSE <<48>>]
      tokenString == stringifyPayload(payload)
      tokenHash == sha256(tokenString)
      encoded == btoa(tokenString)
      visibleToken == [aegis_checkin |-> TRUE, version |-> "1.0.0",
                       timestamp |-> timestamp, package |-> packageId,
                       token |-> tokenHash, payload |-> encoded.text]
  IN IF ~isValid THEN NoTokenResult({"valid"}, "none")
     ELSE IF ~encoded.ok THEN NoTokenResult({}, encoded.error)
     ELSE [keys |-> TokenResultKeys, threw |-> "none", valid |-> TRUE,
           isDuress |-> isDuress, token |-> visibleToken,
           displayCode |-> formatTokenDisplay(visibleToken)]

\* verifyToken's catch: { valid: false, status: 'INVALID', error }
verifyCaught(error) ==
  [keys |-> {"valid", "status", "error"}, valid |-> FALSE, isDuress |-> FALSE,
   timestamp |-> Undefined, packageId |-> Undefined, ageHours |-> NaN,
   status |-> "INVALID", error |-> error]

\* verifyToken that lets the hash check decide before the marker
verifyToken_hashFirst(tokenObj, now) ==
  LET decoded == atob(tokenObj.payload)
      payload == JSONparse(decoded.text)
      hashValid == sha256(decoded.text) = tokenObj.token
      isDuress == getProperty(payload, <<95, 100>>) = Str(<<49>>)
  IN IF ~decoded.ok THEN verifyCaught(decoded.error)
     ELSE IF ~payload.ok THEN verifyCaught("SyntaxError")
     ELSE IF payload.kind = "null" THEN verifyCaught("TypeError")
     ELSE [keys |-> VerifyResultKeys, valid |-> hashValid,
           isDuress |-> isDuress,
           timestamp |-> getProperty(payload, <<116>>),
           packageId |-> getProperty(payload, <<112>>),
           ageHours |-> ageHours(now, dateParse(getProperty(payload, <<116>>))),
           status |-> IF ~hashValid THEN "INVALID"
                      ELSE IF isDuress THEN "DURESS" ELSE "OK",
           error |-> "none"]

\* verifyToken that reports the token's visible timestamp and package
verifyToken_visibleFields(tokenObj, now) ==
  LET decoded == atob(tokenObj.payload)
      payload == JSONparse(decoded.text)
      hashValid == sha256(decoded.text) = tokenObj.token
      isDuress == getProperty(payload, <<95, 100>>) = Str(<<49>>)
  IN IF ~decoded.ok THEN verifyCaught(decoded.error)
     ELSE IF ~payload.ok THEN verifyCaught("SyntaxError")
     ELSE IF payload.kind = "null" THEN verifyCaught("TypeError")
     ELSE [keys |-> VerifyResultKeys, valid |-> hashValid,
           isDuress |-> isDuress,
           timestamp |-> Str(tokenObj.timestamp),
           packageId |-> Str(tokenObj.package),
           ageHours |-> ageHours(now, dateParse(Str(tokenObj.timestamp))),
           status |-> IF isDuress THEN "DURESS"
                      ELSE IF hashValid THEN "OK" ELSE "INVALID",
           error |-> "none"]

\* verifyToken(tokenObj), at the instant new Date() gives
verifyToken(tokenObj, now) ==
  LET decoded == atob(tokenObj.payload)
      payload == JSONparse(decoded.text)
      expectedHash == sha256(decoded.text)
      hashValid == expectedHash = tokenObj.token
      isDuress == getProperty(payload, <<95, 100>>) = Str(<<49>>)
      tokenTime == dateParse(getProperty(payload, <<116>>))
  IN IF ~decoded.ok THEN verifyCaught(decoded.error)
     ELSE IF ~payload.ok THEN verifyCaught("SyntaxError")
     ELSE IF payload.kind = "null" THEN verifyCaught("TypeError")
     ELSE [keys |-> VerifyResultKeys, valid |-> hashValid,
           isDuress |-> isDuress,
           timestamp |-> getProperty(payload, <<116>>),
           packageId |-> getProperty(payload, <<112>>),
           ageHours |-> ageHours(now, tokenTime),
           status |-> IF isDuress THEN "DURESS"
                      ELSE IF hashValid THEN "OK" ELSE "INVALID",
           error |-> "none"]

NoArgs == [passphrase |-> "", duressPhrase |-> "", inputPhrase |-> "",
           packageId |-> <<>>, now |-> 0, nonceBytes |-> <<>>]
NotVerified == [verifyCaught("not called") EXCEPT !.keys = {}]

TokenIdle ==
  /\ tkArgs = NoArgs
  /\ tkResult = NoTokenResult({}, "not called")
  /\ tkToken = NoToken
  /\ tkAltered = "none"
  /\ tkStage = "empty"
  /\ tkVerify = NotVerified

(***************************************************************************)
(* AegisShamir: the specification                                          *)
(***************************************************************************)
ShamirInit ==
  /\ shSecret = <<>>
  /\ shShares = <<>>
  /\ shSplitErr = "none"
  /\ shSeed = 0
  /\ shPicked = <<>>
  /\ shResult = NoResult
  /\ shExport = NoExport
  /\ shImport = NotImported

\* a caller that holds no shares splits a secret; numShares and threshold
\* are whatever it passes
Split ==
  /\ shShares = <<>>
  /\ \E secret \in SeqsOf(SecretBytes, 0, MaxLen),
     numShares \in 1..MaxShares, threshold \in 1..(MaxShares + 1),
     seed \in RandomSeeds :
       /\ shSecret' = secret
       /\ shSplitErr' = splitError(numShares, threshold)
       /\ shSeed' = seed
       /\ shShares' = IF splitError(numShares, threshold) = "none"
                      THEN split(secret, numShares, threshold, seed)
                      ELSE <<>>
  /\ UNCHANGED <<shPicked, shResult, shExport, shImport, notShamir>>

\* the lists of shares a holder of shShares hands to combine: any shares in
\* any order, and short lists in which a share occurs twice
Picks ==
  {p \in SeqsOf(DOMAIN shShares, 1, Len(shShares)) :
     IsInjective(p) \/ Len(p) <= MaxDupLen}

\* the holder combines once per split (combine is pure: a second call only
\* repeats the first)
Combine ==
  /\ shShares # <<>>
  /\ shPicked = <<>>
  /\ \E p \in Picks :
       LET shares == [n \in 1..Len(p) |-> shShares[p[n]]]
       IN /\ shPicked' = shares
          /\ shResult' = combine(shares)
  /\ UNCHANGED <<shSecret, shShares, shSplitErr, shSeed, shExport, shImport,
                 notShamir>>

\* the caller drops the shares and the result it holds
Discard ==
  /\ shShares # <<>>
  /\ shSecret' = <<>>
  /\ shShares' = <<>>
  /\ shSplitErr' = "none"
  /\ shSeed' = 0
  /\ shPicked' = <<>>
  /\ shResult' = NoResult
  /\ shExport' = NoExport
  /\ shImport' = NotImported
  /\ UNCHANGED notShamir

ShamirNext == Split \/ Combine \/ Discard

ShamirSpecInit ==
  /\ ShamirInit /\ EscalationIdle /\ HeartbeatIdle /\ CryptoIdle /\ TokenIdle
  /\ EvidenceIdle

SpecShamir == ShamirSpecInit /\ [][ShamirNext]_vars

\* the ids of the shares handed to combine
PickedIds == {shPicked[n].id : n \in DOMAIN shPicked}

\* combine was handed exactly threshold shares of the split, all different
PickedThresholdSubset ==
  /\ shPicked # <<>>
  /\ Len(shPicked) = shPicked[1].threshold
  /\ Cardinality(PickedIds) = Len(shPicked)

\* C1: combine applied to any M distinct shares of split(S, N, M), in any
\* order and for every sampled choice of the random coefficients, returns
\* exactly S: no error, the same length and the same bytes.
C1_CombineThresholdSubset ==
  PickedThresholdSubset =>
    /\ shResult.ok
    /\ Len(shResult.secret) = Len(shSecret)
    /\ shResult.secret = shSecret

\* C1 witness: a 2-byte secret split 3-of-4 with non-constant polynomials and
\* rebuilt from shares 4, 2, 3 (not the first three, not in id order)
C1_Witness ==
  /\ PickedThresholdSubset
  /\ Len(shSecret) = 2 /\ shSecret[1] # 0
  /\ Len(shShares) = 4 /\ Len(shPicked) = 3
  /\ <<shPicked[1].id, shPicked[2].id, shPicked[3].id>> = <<4, 2, 3>>
  /\ shPicked[1].data # shSecret /\ shPicked[1].data # shPicked[2].data
  /\ shResult.ok /\ shResult.secret = shSecret

\* combine was handed fewer shares than the threshold, all different
PickedTooFew ==
  /\ shPicked # <<>>
  /\ Len(shPicked) < shPicked[1].threshold
  /\ Cardinality(PickedIds) = Len(shPicked)

\* the coefficient of the highest power in the polynomial of byte byteIdx
LeadingCoeff(byteIdx) ==
  splitCoeffs(shSecret, shPicked[1].threshold, shSeed, byteIdx)[shPicked[1].threshold]

PickedRepeatedId ==
  /\ shPicked # <<>>
  /\ Cardinality(PickedIds) < Len(shPicked)

DivisionByZero == [ok |-> FALSE, error |-> "Division by zero", secret |-> <<>>]

\* C16 as stated: combine fails with 'Division by zero' and returns no
\* secret whenever two of the shares have the same id, and never fails so
\* when the ids are pairwise distinct.
C16_RepeatedIdAlwaysFails ==
  /\ PickedRepeatedId => shResult = DivisionByZero
  /\ (shPicked # <<>> /\ ~PickedRepeatedId) => shResult.error # "Division by zero"

\* C16: combine fails with 'Division by zero' and returns no secret whenever
\* two of the shares have the same id and the shares hold at least one byte;
\* for shares of an empty secret it interpolates nothing and returns the
\* empty sequence; with pairwise distinct ids it never fails so.
C16_RepeatedIdFailsUnlessEmpty ==
  /\ PickedRepeatedId =>
       IF Len(shPicked[1].data) > 0 THEN shResult = DivisionByZero
       ELSE shResult.ok /\ shResult.secret = <<>>
  /\ (shPicked # <<>> /\ ~PickedRepeatedId) => shResult.error # "Division by zero"

\* C16 witness: shares 2, 3, 2 of a 2-byte secret made combine fail
C16_Witness ==
  /\ PickedRepeatedId /\ Len(shPicked) = 3 /\ Len(shSecret) = 2
  /\ <<shPicked[1].id, shPicked[2].id, shPicked[3].id>> = <<2, 3, 2>>
  /\ shResult = DivisionByZero

(***************************************************************************)
(* AegisShamir: what fewer shares than the threshold tell.  One byte is    *)
(* split, and M - 1 of its shares come into one hand.                      *)
(***************************************************************************)
\* the thresholds for which every choice of the random coefficients is
\* counted
SecrecyThresholds == {2, 3}

\* the outcomes of getRandomValues sampled for a threshold: for one random
\* coefficient, seeds 0..255 give each of its 256 values once; for two, one
\* outcome is split and all 65536 are counted against it
SecrecySeeds(threshold) == IF threshold = 2 THEN 0..255 ELSE {1}

\* the byte split puts in the share with id x for a secret byte whose
\* polynomial has these random coefficients
shareByte(secretByte, randomCoeffs, x) ==
  evaluatePolynomial(<<secretByte>> \o randomCoeffs, x)

\* split(secret, numShares, threshold) for a secret of one byte
SplitByte ==
  /\ shShares = <<>>
  /\ \E secretByte \in SecretBytes, threshold \in SecrecyThresholds :
       \E seed \in SecrecySeeds(threshold) :
         /\ shSecret' = <<secretByte>>
         /\ shSplitErr' = splitError(MaxSecrecyShares, threshold)
         /\ shSeed' = seed
         /\ shShares' = split(<<secretByte>>, MaxSecrecyShares, threshold, seed)
  /\ UNCHANGED <<shPicked, shResult, shExport, shImport, notShamir>>

\* threshold - 1 of the shares come into one hand
Leak ==
  /\ shShares # <<>>
  /\ shPicked = <<>>
  /\ \E ids \in SUBSET (1..Len(shShares)) :
       /\ Cardinality(ids) = shShares[1].threshold - 1
       /\ shPicked' = [n \in 1..Cardinality(ids) |->
            shShares[CHOOSE i \in ids : Cardinality({j \in ids : j < i}) = n - 1]]
  /\ UNCHANGED <<shSecret, shShares, shSplitErr, shSeed, shResult, shExport,
                 shImport, notShamir>>

SecrecyNext == SplitByte \/ Leak \/ Discard

SpecSecrecy == ShamirSpecInit /\ [][SecrecyNext]_vars

\* the choices of the random coefficients for which the shares in hand are
\* those of secretByte
ConsistentCoeffs(secretByte) ==
  {c \in [1..(shPicked[1].threshold - 1) -> 0..255] :
     \A n \in 1..Len(shPicked) :
       shareByte(secretByte, c, shPicked[n].id) = shPicked[n].data[1]}

\* C13: the bytes of any M - 1 shares of one split byte are those of every
\* secret byte for exactly one choice of the M - 1 random coefficients: the
\* number of choices that give them does not depend on the secret.
C13_FewerSharesRevealNothing ==
  shPicked # <<>> =>
    /\ \A n \in 1..Len(shPicked) :
         shPicked[n].data[1] =
           shareByte(shSecret[1],
                     [k \in 1..(shPicked[1].threshold - 1) |->
                        RandomByte(shSeed, 1, k)],
                     shPicked[n].id)
    /\ \A secretByte \in SecretBytes :
         Cardinality(ConsistentCoeffs(secretByte)) = 1

\* C13 witness: shares 2 and 3 of a 3-of-3 split of the byte 83 are in one
\* hand, neither holds the byte itself, and they are also the shares of the
\* byte 255
C13_Witness ==
  /\ shPicked # <<>> /\ shPicked[1].threshold = 3
  /\ <<shPicked[1].id, shPicked[2].id>> = <<2, 3>>
  /\ shSecret = <<83>> /\ shPicked[1].data # <<83>> /\ shPicked[2].data # <<83>>
  /\ ConsistentCoeffs(255) # {}

(***************************************************************************)
(* AegisCheckin: the escalation specification.  A guardian holds the last  *)
(* known check-in time and the agreed interval and evaluates the level as  *)
(* its clock advances.                                                     *)
(***************************************************************************)
\* the instants the clock is sampled at: each full hour and its last millisecond
Instants ==
  {h * MS_PER_HOUR + d : h \in 0..MaxHours, d \in {0, MS_PER_HOUR - 1}}

\* the agreed check-in intervals, in hours
Intervals == {0, 1, 2, 24}

EscalationInit ==
  /\ esNow = 0
  /\ esLast = Absent
  /\ esInterval \in Intervals
  /\ esEval = NotEvaluated

\* the clock advances to a later instant
ClockAdvance ==
  /\ \E t \in Instants : t > esNow /\ esNow' = t
  /\ UNCHANGED <<esLast, esInterval, esEval, notEscalation>>

\* a new last check-in becomes known; the clock that stamped it may be up to
\* an hour ahead of the guardian's
RecordCheckin ==
  /\ \E t \in Instants :
       /\ t <= esNow + MS_PER_HOUR
       /\ t >= esNow - MS_PER_HOUR
       /\ esLast' = At(t)
  /\ esEval' = NotEvaluated
  /\ UNCHANGED <<esNow, esInterval, notEscalation>>

\* the guardian calls getEscalationLevel and isOverdue
Evaluate ==
  /\ esEval' = [done |-> TRUE, at |-> esNow,
                level |-> getEscalationLevel(esLast, esInterval, esNow),
                overdue |-> isOverdue(esLast, esInterval, esNow)]
  /\ UNCHANGED <<esNow, esLast, esInterval, notEscalation>>

EscalationNext == ClockAdvance \/ RecordCheckin \/ Evaluate

EscalationSpecInit ==
  /\ EscalationInit /\ ShamirInit /\ HeartbeatIdle /\ CryptoIdle /\ TokenIdle
  /\ EvidenceIdle

SpecEscalation == EscalationSpecInit /\ [][EscalationNext]_vars

\* floor(elapsedHours / intervalHours) of the last evaluation, for a positive
\* interval: elapsed milliseconds over the milliseconds of one interval
EvalMissed == (esEval.at - esLast.t) \div (MS_PER_HOUR * esInterval)

\* C4: getEscalationLevel returns 4 for an absent lastCheckin; otherwise, with
\* missed = floor(elapsedHours / intervalHours), 0 for missed 0, 1 for 1,
\* 2 for 2, 3 for 3 and 4 for every missed >= 4 (a zero interval with time
\* elapsed counts as missed = Infinity); the result is always in 0..4, and
\* 100 hours elapsed with a 24 hour interval give 4.
C4_EscalationLevelMapping ==
  /\ getEscalationLevel(At(MS_PER_HOUR), 24, 101 * MS_PER_HOUR) = 4
  /\ esEval.done =>
       /\ esEval.level \in 0..4
       /\ ~esLast.present => esEval.level = 4
       /\ (esLast.present /\ esInterval > 0) =>
            /\ EvalMissed = 0 => esEval.level = 0
            /\ EvalMissed \in 1..3 => esEval.level = EvalMissed
            /\ EvalMissed >= 4 => esEval.level = 4
       /\ (esLast.present /\ esInterval = 0 /\ esEval.at > esLast.t) =>
            esEval.level = 4

\* C4 witness: one millisecond short of four 2-hour intervals after the last
\* check-in the evaluated level is 3
C4_Witness ==
  /\ esEval.done /\ esLast.present /\ esInterval = 2
  /\ esEval.at - esLast.t = 8 * MS_PER_HOUR - 1
  /\ esEval.level = 3

\* C5: with lastCheckin and a positive interval fixed, every later evaluation
\* gives a level at least as high as the one before; evaluations less than
\* one interval apart rise by at most one level; once 4 it stays 4; and at
\* zero elapsed time the level is 0.
C5_LevelNeverDecreases ==
  [][(esEval'.done /\ esLast'.present /\ esInterval > 0) =>
       /\ (esEval'.at = esLast'.t) => esEval'.level = 0
       /\ (esEval.done /\ esLast' = esLast) =>
            /\ esEval'.level >= esEval.level
            /\ esEval.level = 4 => esEval'.level = 4
            /\ (esEval'.at - esEval.at < esInterval * MS_PER_HOUR) =>
                 esEval'.level <= esEval.level + 1]_vars

\* C5 witness: the level has reached 4, five 1-hour intervals after a
\* recorded check-in
C5_Witness ==
  /\ esEval.done /\ esLast.present /\ esInterval = 1
  /\ esEval.at - esLast.t >= 5 * MS_PER_HOUR
  /\ esEval.level = 4

\* the last evaluation was made exactly one interval after the last check-in
EvalAtBoundary ==
  esLast.present /\ esEval.at - esLast.t = esInterval * MS_PER_HOUR

\* C20 as stated: for a positive interval, isOverdue is true exactly when
\* getEscalationLevel, called at the same instant with the same arguments,
\* is at least 1.
C20_OverdueIffLevelAtLeastOne ==
  (esEval.done /\ esInterval > 0) => (esEval.overdue <=> esEval.level >= 1)

\* C20: for a positive interval, isOverdue implies a level of at least 1;
\* for an absent lastCheckin isOverdue is true and the level is 4; a level
\* of at least 1 comes without isOverdue exactly when the elapsed time
\* equals the interval, where the level is 1.
C20_OverdueAgreesOffBoundary ==
  (esEval.done /\ esInterval > 0) =>
    /\ esEval.overdue => esEval.level >= 1
    /\ ~esLast.present => (esEval.overdue /\ esEval.level = 4)
    /\ (esEval.level >= 1 /\ ~esEval.overdue) <=> EvalAtBoundary
    /\ EvalAtBoundary => esEval.level = 1

\* C20 witness: exactly one 2-hour interval after the last check-in the
\* level is 1 and isOverdue is false
C20_Witness ==
  /\ esEval.done /\ esInterval = 2 /\ EvalAtBoundary
  /\ esLast.t > 0 /\ esEval.level = 1 /\ ~esEval.overdue


(***************************************************************************)
(* AegisGitHub: the heartbeat specification.  performHeartbeat suspends at *)
(* its two awaits; the store answers a request when it answers, or never.  *)
(***************************************************************************)
HeartbeatInit ==
  /\ hbStore \in InitialStores
  /\ hbClock = 0
  /\ hbPc = [c \in Clients |-> "idle"]
  /\ hbExisting = [c \in Clients |-> NullExisting]
  /\ hbRequest = [c \in Clients |-> NoRequest]
  /\ hbResponse = [c \in Clients |-> NoResponse]
  /\ hbReturn = [c \in Clients |-> NoReturn]
  /\ hbTrace = [c \in Clients |-> NoTrace]

\* performHeartbeat up to its first await: without a complete config it
\* returns at once, else getHeartbeat sends the GET
StartHeartbeat(c) ==
  /\ hbPc[c] = "idle"
  /\ hbClock < MaxRuns
  /\ hbClock' = hbClock + 1
  /\ \E configured \in BOOLEAN :
       IF configured
       THEN /\ hbPc' = [hbPc EXCEPT ![c] = "awaitGet"]
            /\ hbReturn' = [hbReturn EXCEPT ![c] = NoReturn]
       ELSE /\ hbPc' = [hbPc EXCEPT ![c] = "done"]
            /\ hbReturn' = [hbReturn EXCEPT ![c] =
                 [success |-> FALSE, error |-> "GitHub not configured",
                  timestamp |-> 0]]
  /\ hbExisting' = [hbExisting EXCEPT ![c] = NullExisting]
  /\ hbRequest' = [hbRequest EXCEPT ![c] = NoRequest]
  /\ hbResponse' = [hbResponse EXCEPT ![c] = NoResponse]
  /\ hbTrace' = [hbTrace EXCEPT ![c] = NoTrace]
  /\ UNCHANGED <<hbStore, notHeartbeat>>

\* the answers the GET can get: the file or 404 from the store, another
\* status, or fetch rejecting
GetResponses ==
  {[kind |-> "networkError", status |-> 0, parses |-> FALSE,
    doc |-> NoDocument, sha |-> 0],
   [kind |-> "httpError", status |-> 500, parses |-> FALSE,
    doc |-> NoDocument, sha |-> 0],
   IF hbStore.version = 0
   THEN [kind |-> "notFound", status |-> 404, parses |-> FALSE,
         doc |-> NoDocument, sha |-> 0]
   ELSE [kind |-> "ok", status |-> 200, parses |-> hbStore.parses,
         doc |-> hbStore.doc, sha |-> hbStore.version]}

\* the GET is answered
AnswerGet(c) ==
  /\ hbPc[c] = "awaitGet"
  /\ hbResponse[c].kind = "none"
  /\ \E resp \in GetResponses :
       /\ hbResponse' = [hbResponse EXCEPT ![c] = resp]
       /\ hbTrace' = [hbTrace EXCEPT ![c] =
            [@ EXCEPT !.readVersion = hbStore.version,
                      !.readFailed = ~(resp.kind \in {"notFound", "ok"}
                                       /\ (resp.kind = "ok" => resp.parses))]]
  /\ UNCHANGED <<hbStore, hbClock, hbPc, hbExisting, hbRequest, hbReturn, notHeartbeat>>

\* performHeartbeat from the first await to the second: getHeartbeat returns,
\* the record is built and updateHeartbeat sends the PUT
ContinueAfterGet(c) ==
  /\ hbPc[c] = "awaitGet"
  /\ hbResponse[c].kind # "none"
  /\ LET existing == getHeartbeat(hbResponse[c])
     IN /\ hbExisting' = [hbExisting EXCEPT ![c] = existing]
        /\ hbRequest' = [hbRequest EXCEPT ![c] =
             [doc |-> heartbeatData(existing, LocalConfig[c], hbClock),
              sha |-> existing.sha]]
  /\ hbResponse' = [hbResponse EXCEPT ![c] = NoResponse]
  /\ hbPc' = [hbPc EXCEPT ![c] = "awaitPut"]
  /\ UNCHANGED <<hbStore, hbClock, hbReturn, hbTrace, notHeartbeat>>

\* the PUT is answered: fetch rejects, or the store applies or refuses it
AnswerPut(c) ==
  /\ hbPc[c] = "awaitPut"
  /\ hbResponse[c].kind = "none"
  /\ \E reached \in BOOLEAN :
       LET sha == updateHeartbeatSha(hbRequest[c].sha, hbStore.version)
           status == storePutStatus(hbStore, sha)
           applied == reached /\ status \in {200, 201}
       IN /\ hbResponse' = [hbResponse EXCEPT ![c] =
               [NoResponse EXCEPT
                  !.kind = IF ~reached THEN "networkError"
                           ELSE IF applied THEN "ok" ELSE "httpError",
                  !.status = IF reached THEN status ELSE 0]]
          /\ hbStore' = IF applied
                        THEN [version |-> hbStore.version + 1, parses |-> TRUE,
                              doc |-> hbRequest[c].doc]
                        ELSE hbStore
          /\ hbTrace' = [hbTrace EXCEPT ![c] =
               [@ EXCEPT !.writeFailed = ~applied,
                         !.changed = hbStore.version # hbTrace[c].readVersion,
                         !.applied = applied,
                         !.replaced = hbStore.version]]
  /\ UNCHANGED <<hbClock, hbPc, hbExisting, hbRequest, hbReturn, notHeartbeat>>

\* performHeartbeat after the second await: updateHeartbeat returns or throws
ContinueAfterPut(c) ==
  /\ hbPc[c] = "awaitPut"
  /\ hbResponse[c].kind # "none"
  /\ hbReturn' = [hbReturn EXCEPT ![c] =
       IF hbResponse[c].kind = "ok"
       THEN [success |-> TRUE, error |-> "none",
             timestamp |-> hbRequest[c].doc.last_checkin]
       ELSE [success |-> FALSE,
             error |-> IF hbResponse[c].kind = "networkError"
                       THEN "Failed to fetch" ELSE "GitHub API error",
             timestamp |-> 0]]
  /\ hbPc' = [hbPc EXCEPT ![c] = "done"]
  /\ UNCHANGED <<hbStore, hbClock, hbExisting, hbRequest, hbResponse, hbTrace, notHeartbeat>>

\* the caller has the result; the browser is free for the next check-in
Returned(c) ==
  /\ hbPc[c] = "done"
  /\ hbPc' = [hbPc EXCEPT ![c] = "idle"]
  /\ UNCHANGED <<hbStore, hbClock, hbExisting, hbRequest, hbResponse,
                 hbReturn, hbTrace, notHeartbeat>>

HeartbeatNext ==
  \E c \in Clients :
    \/ StartHeartbeat(c)
    \/ AnswerGet(c)
    \/ ContinueAfterGet(c)
    \/ AnswerPut(c)
    \/ ContinueAfterPut(c)
    \/ Returned(c)

HeartbeatSpecInit ==
  /\ HeartbeatInit /\ ShamirInit /\ EscalationIdle /\ CryptoIdle /\ TokenIdle
  /\ EvidenceIdle

SpecHeartbeat == HeartbeatSpecInit /\ [][HeartbeatNext]_vars

\* the event loop runs a continuation whose promise has settled; nothing
\* obliges the store to answer
SpecHeartbeatFair ==
  /\ SpecHeartbeat
  /\ \A c \in Clients :
       /\ WF_vars(ContinueAfterGet(c))
       /\ WF_vars(ContinueAfterPut(c))

\* C6: performHeartbeat writes with the version it read.  A PUT that the
\* store applies replaces exactly the version getHeartbeat returned (or
\* creates the file when none was read and none exists); if the file changed
\* between the run's read and its write, the store refuses the PUT (409, or
\* 422 when no sha was sent) and performHeartbeat returns success: false.
C6_NoSilentOverwrite ==
  \A c \in Clients :
    /\ hbTrace[c].applied => hbTrace[c].replaced = hbExisting[c].sha
    /\ hbTrace[c].changed =>
         /\ ~hbTrace[c].applied
         /\ hbResponse[c].kind = "httpError" => hbResponse[c].status \in {409, 422}
         /\ hbPc[c] = "done" => ~hbReturn[c].success

\* C6 witness: a run read version v, the other browser's write made it
\* v + 1, and the run's PUT came back 409 and was reported as a failure
C6_Witness ==
  \E c \in Clients :
    /\ hbPc[c] = "done" /\ hbTrace[c].changed
    /\ hbExisting[c].found /\ hbStore.version = hbExisting[c].sha + 1
    /\ hbResponse[c].status = 409
    /\ ~hbReturn[c].success
    /\ hbStore.doc.last_checkin # hbRequest[c].doc.last_checkin

\* a run of performHeartbeat that found a tagged record and returned success
UpdatedTagged(c) ==
  /\ hbPc[c] = "done" /\ hbReturn[c].success
  /\ hbExisting[c].found /\ hbExisting[c].doc.aegis_heartbeat

C7_HeartbeatEventuallyReturns ==
  \A c \in Clients :
    (hbPc[c] \in {"awaitGet", "awaitPut"}) ~> (hbPc[c] = "done")

\* C8: a run whose read or write of the heartbeat record failed returns
\* success: false.
C8_StoreFailureReported ==
  \A c \in Clients :
    (hbPc[c] = "done" /\ (hbTrace[c].readFailed \/ hbTrace[c].writeFailed)) =>
      ~hbReturn[c].success


(***************************************************************************)
(* AegisCrypto: the envelope specification.  An owner encrypts, the        *)
(* envelope travels packed or as it is, someone may flip a bit of it, and  *)
(* a holder decrypts with the passphrase it has.                           *)
(***************************************************************************)
CryptoInit == CryptoIdle

\* encrypt(data, passphrase)
Encrypt ==
  /\ crStage = "empty"
  /\ \E data \in SeqsOf(SecretBytes, 0, MaxPlainLen), passphrase \in Passphrases,
        salt \in RandomBytes(SALT_LENGTH), iv \in RandomBytes(IV_LENGTH) :
       /\ crPlain' = data
       /\ crPass' = passphrase
       /\ crEnvelope' = encrypt(data, passphrase, salt, iv)
  /\ crStage' = "envelope"
  /\ UNCHANGED <<crPacked, crTamper, crDecPass, crResult, notCrypto>>

\* packEncrypted(envelope), the second half of encryptFile
Pack ==
  /\ crStage = "envelope"
  /\ crTamper = "none"
  /\ crPacked' = packEncrypted(crEnvelope)
  /\ crStage' = "packed"
  /\ UNCHANGED <<crPlain, crPass, crEnvelope, crTamper, crDecPass, crResult,
                 notCrypto>>

\* the bits of a byte that get flipped
FlippedBits == {0, 3, 7}

\* one bit of the ciphertext or of the tag is flipped, in the envelope or in
\* its packed form
Tamper ==
  /\ crTamper = "none"
  /\ crStage \in {"envelope", "packed"}
  /\ \E i \in 1..Len(crEnvelope.ciphertext), bit \in FlippedBits :
       /\ crTamper' = IF i > Len(crEnvelope.ciphertext) - TAG_LENGTH
                      THEN "tag" ELSE "ciphertext"
       /\ IF crStage = "envelope"
          THEN /\ crEnvelope' = [crEnvelope EXCEPT
                                   !.ciphertext[i] = FlipBit(@, bit)]
               /\ UNCHANGED crPacked
          ELSE /\ crPacked' = [crPacked EXCEPT
                                 ![SALT_LENGTH + IV_LENGTH + i] = FlipBit(@, bit)]
               /\ UNCHANGED crEnvelope
  /\ UNCHANGED <<crPlain, crPass, crStage, crDecPass, crResult, notCrypto>>

\* decrypt(envelope, passphrase)
Decrypt ==
  /\ crStage = "envelope"
  /\ \E passphrase \in Passphrases :
       /\ crDecPass' = passphrase
       /\ crResult' = decrypt(crEnvelope, passphrase)
  /\ crStage' = "decrypted"
  /\ UNCHANGED <<crPlain, crPass, crEnvelope, crPacked, crTamper, notCrypto>>

\* decryptFile(packed, passphrase)
DecryptFile ==
  /\ crStage = "packed"
  /\ \E passphrase \in Passphrases :
       /\ crDecPass' = passphrase
       /\ crResult' = decryptFile(crPacked, passphrase)
  /\ crStage' = "decryptedFile"
  /\ UNCHANGED <<crPlain, crPass, crEnvelope, crPacked, crTamper, notCrypto>>

\* the envelope and the result are dropped
Forget ==
  /\ crStage \in {"decrypted", "decryptedFile"}
  /\ crPlain' = <<>>
  /\ crPass' = ""
  /\ crEnvelope' = NoEnvelope
  /\ crPacked' = <<>>
  /\ crTamper' = "none"
  /\ crStage' = "empty"
  /\ crDecPass' = ""
  /\ crResult' = NotDecrypted
  /\ UNCHANGED notCrypto

CryptoNext == Encrypt \/ Pack \/ Tamper \/ Decrypt \/ DecryptFile \/ Forget

CryptoSpecInit ==
  /\ CryptoInit /\ ShamirInit /\ EscalationIdle /\ HeartbeatIdle /\ TokenIdle
  /\ EvidenceIdle

SpecCrypto == CryptoSpecInit /\ [][CryptoNext]_vars

\* a decryption has returned or thrown
Decrypted == crStage \in {"decrypted", "decryptedFile"}

\* C2: decrypt(encrypt(S, P), P) = S for every sampled S and P, directly and
\* through packEncrypted/unpackEncrypted; the packed form holds the salt at
\* bytes [0, 16), the nonce at [16, 28) and ciphertext and tag from byte 28.
C2_DecryptInvertsEncrypt ==
  /\ (crStage \in {"packed", "decryptedFile"} /\ crTamper = "none") =>
       /\ Len(crPacked) = 28 + Len(crPlain) + TAG_LENGTH
       /\ SubSeq(crPacked, 1, 16) = crEnvelope.salt
       /\ SubSeq(crPacked, 17, 28) = crEnvelope.iv
       /\ SubSeq(crPacked, 29, Len(crPacked)) = crEnvelope.ciphertext
  /\ (Decrypted /\ crTamper = "none" /\ crDecPass = crPass) =>
       /\ crResult.ok
       /\ crResult.plaintext = crPlain

\* C2 witness: a 2-byte plaintext came back from decryptFile of its packed
\* envelope, whose ciphertext differs from the plaintext
C2_Witness ==
  /\ crStage = "decryptedFile" /\ crTamper = "none" /\ crDecPass = crPass
  /\ Len(crPlain) = 2 /\ crEnvelope.salt[1] # 0
  /\ SubSeq(crEnvelope.ciphertext, 1, 2) # crPlain
  /\ crResult.ok /\ crResult.plaintext = crPlain

\* C3: decrypt returns no plaintext for an envelope with a flipped bit in
\* its ciphertext or tag, nor for a wrong passphrase; it fails, and the
\* failure is the same value in both cases.
C3_TamperOrWrongPassFails ==
  (Decrypted /\ (crTamper # "none" \/ crDecPass # crPass)) =>
    /\ ~crResult.ok
    /\ crResult.plaintext = <<>>
    /\ crResult = OperationError

\* C3 witness: decryptFile with the right passphrase failed on a packed
\* envelope with a flipped tag bit
C3_Witness ==
  /\ crStage = "decryptedFile" /\ crTamper = "tag" /\ crDecPass = crPass
  /\ Len(crPlain) = 2
  /\ crResult = OperationError


(***************************************************************************)
(* AegisCheckin: the token specification.  The owner's browser generates   *)
(* a token, the token reaches a guardian as it is, altered or made up, and *)
(* the guardian's browser verifies it.                                     *)
(***************************************************************************)
\* the phrases set up and typed
Phrases == {"normal", "duress", "other"}
\* package ids: "", "pkg-1", a"é (a quote and a Latin-1 letter) and the euro
\* sign, which is no Latin-1 character
PackageIds == {<<>>, <<112, 107, 103, 45, 49>>, <<97, 34, 233>>, <<8364>>}
\* instants of new Date(), in milliseconds of January 2024
TokenInstants == {0, 14 * 86400000 + 5 * 3600000 + 61007}
\* instants at which a guardian verifies
VerifyInstants == {14 * 86400000 + 7 * 3600000, 20 * 86400000}

\* payload texts made up by someone else: {"_d":"1"}, {"_d":1}, {}, null, 7,
\* "x", x and {"t":"x","_d":"0","_d":"1"}
CraftedPayloads ==
  {<<123, 34, 95, 100, 34, 58, 34, 49, 34, 125>>,
   <<123, 34, 95, 100, 34, 58, 49, 125>>,
   <<123, 125>>,
   <<110, 117, 108, 108>>,
   <<55>>,
   <<34, 120, 34>>,
   <<120>>,
   <<123, 34, 116, 34, 58, 34, 120, 34, 44, 34, 95, 100, 34, 58, 34, 48, 34,
     44, 34, 95, 100, 34, 58, 34, 49, 34, 125>>}

\* the marker of a stringified payload ends 3 characters before its end
flipMarker(text) ==
  [text EXCEPT ![Len(text) - 2] = IF @ = 49 THEN 48 ELSE 49]

\* the tokens a guardian can be handed in place of token
AlteredTokens(token) ==
  {[how |-> "none", token |-> token],
   [how |-> "hash", token |-> [token EXCEPT !.token = sha256(token.token)]],
   [how |-> "visible", token |-> [token EXCEPT !.timestamp = toISOString(1),
                                               !.package = <<120>>]],
   [how |-> "marker", token |-> [token EXCEPT
       !.payload = btoa(flipMarker(atob(token.payload).text)).text]],
   [how |-> "markerAndHash", token |-> [token EXCEPT
       !.payload = btoa(flipMarker(atob(token.payload).text)).text,
       !.token = sha256(flipMarker(atob(token.payload).text))]],
   [how |-> "notBase64", token |-> [token EXCEPT !.payload = <<33, 33, 33, 33>>]],
   [how |-> "truncated", token |-> [token EXCEPT
       !.payload = SubSeq(token.payload, 1, 41)]]}
  \cup {[how |-> "crafted", token |-> [token EXCEPT !.payload = btoa(p).text]]
          : p \in CraftedPayloads}
  \cup {[how |-> "craftedWithHash",
         token |-> [token EXCEPT !.payload = btoa(p).text, !.token = sha256(p)]]
          : p \in CraftedPayloads}

TokenInit == TokenIdle

\* generateToken(passphrase, duressPhrase, inputPhrase, packageId)
Generate ==
  /\ tkStage = "empty"
  /\ \E passphrase \in {"normal"}, duressPhrase \in {"duress", "normal"},
        inputPhrase \in Phrases, packageId \in PackageIds,
        now \in TokenInstants, nonceBytes \in RandomBytes(8) :
       /\ tkArgs' = [passphrase |-> passphrase, duressPhrase |-> duressPhrase,
                     inputPhrase |-> inputPhrase, packageId |-> packageId,
                     now |-> now, nonceBytes |-> nonceBytes]
       /\ tkResult' = generateToken(passphrase, duressPhrase, inputPhrase,
                                    packageId, now, nonceBytes)
  /\ tkStage' = IF tkResult'.valid THEN "generated" ELSE "rejected"
  /\ UNCHANGED <<tkToken, tkAltered, tkVerify, notToken>>

\* the token, or something in its place, reaches a guardian
Hand ==
  /\ tkStage = "generated"
  /\ \E a \in AlteredTokens(tkResult.token) :
       /\ tkToken' = a.token
       /\ tkAltered' = a.how
  /\ tkStage' = "handed"
  /\ UNCHANGED <<tkArgs, tkResult, tkVerify, notToken>>

\* verifyToken(tokenObj)
Verify ==
  /\ tkStage = "handed"
  /\ \E now \in VerifyInstants : tkVerify' = verifyToken(tkToken, now)
  /\ tkStage' = "verified"
  /\ UNCHANGED <<tkArgs, tkResult, tkToken, tkAltered, notToken>>

\* the page is left
Leave ==
  /\ tkStage \in {"rejected", "verified"}
  /\ tkArgs' = NoArgs
  /\ tkResult' = NoTokenResult({}, "not called")
  /\ tkToken' = NoToken
  /\ tkAltered' = "none"
  /\ tkStage' = "empty"
  /\ tkVerify' = NotVerified
  /\ UNCHANGED notToken

TokenNext == Generate \/ Hand \/ Verify \/ Leave

TokenSpecInit ==
  /\ TokenInit /\ ShamirInit /\ EscalationIdle /\ HeartbeatIdle /\ CryptoIdle
  /\ EvidenceIdle

SpecToken == TokenSpecInit /\ [][TokenNext]_vars

\* what generateToken gives for the same phrases, package id, instant and
\* nonce when the other of the two phrases is typed
OtherPhraseResult ==
  generateToken(tkArgs.passphrase, tkArgs.duressPhrase,
                IF tkArgs.inputPhrase = tkArgs.duressPhrase
                THEN tkArgs.passphrase ELSE tkArgs.duressPhrase,
                tkArgs.packageId, tkArgs.now, tkArgs.nonceBytes)

\* the decoded payload of a generated token
DecodedPayload(result) == JSONparse(atob(result.token.payload).text)

\* C9: the token generated for the duress phrase and the one generated for
\* the normal passphrase, with the same phrases, package id, instant and
\* nonce, have the same keys, the same version, timestamp and package, a hash
\* and an encoded payload of the same length, a display code of the same
\* length, and decoded payloads with the same members in the same order that
\* differ in the marker only, whose two values have the same length.
C9_DuressDiffersOnlyInMarker ==
  tkStage \in {"generated", "handed", "verified"} =>
    LET mine == tkResult
        other == OtherPhraseResult
        p == DecodedPayload(mine)
        q == DecodedPayload(other)
    IN /\ other.valid /\ other.keys = mine.keys
       /\ other.token.aegis_checkin = mine.token.aegis_checkin
       /\ other.token.version = mine.token.version
       /\ other.token.timestamp = mine.token.timestamp
       /\ other.token.package = mine.token.package
       /\ Len(other.token.token) = Len(mine.token.token)
       /\ Len(other.token.payload) = Len(mine.token.payload)
       /\ Len(other.displayCode) = Len(mine.displayCode)
       /\ p.ok /\ q.ok /\ Len(p.members) = Len(q.members)
       /\ \A k \in 1..Len(p.members) :
            /\ p.members[k].key = q.members[k].key
            /\ p.members[k].value.kind = q.members[k].value.kind
            /\ Len(p.members[k].value.text) = Len(q.members[k].value.text)
            /\ p.members[k].key # <<95, 100>> =>
                 p.members[k].value = q.members[k].value

\* C9 witness: a duress token was generated where the normal passphrase
\* gives a token with another marker, another hash and another payload text
C9_Witness ==
  /\ tkStage = "generated" /\ tkResult.isDuress
  /\ tkArgs.passphrase # tkArgs.duressPhrase /\ tkArgs.packageId # <<>>
  /\ ~OtherPhraseResult.isDuress
  /\ OtherPhraseResult.token.token # tkResult.token.token
  /\ OtherPhraseResult.token.payload # tkResult.token.payload
  /\ getProperty(DecodedPayload(tkResult), <<95, 100>>) = Str(<<49>>)
  /\ getProperty(DecodedPayload(OtherPhraseResult), <<95, 100>>) = Str(<<48>>)

\* the payload of the token handed over decodes to a JSON value that has
\* properties
Decodable ==
  /\ atob(tkToken.payload).ok
  /\ JSONparse(atob(tkToken.payload).text).ok
  /\ JSONparse(atob(tkToken.payload).text).kind # "null"

\* C10: for a decodable token verifyToken reports DURESS when the decoded
\* payload's _d is the string '1', whatever the hash; else OK when the hash
\* of the decoded payload text is the token's hash; else INVALID; valid is
\* the outcome of the hash comparison.  For a token as generateToken made it,
\* valid is true and isDuress says whether the duress phrase was typed.
C10_VerifyClassification ==
  tkStage = "verified" =>
    LET text == atob(tkToken.payload).text
        marked == getProperty(JSONparse(text), <<95, 100>>) = Str(<<49>>)
        matches == sha256(text) = tkToken.token
    IN /\ Decodable =>
            /\ tkVerify.keys = VerifyResultKeys
            /\ tkVerify.valid = matches
            /\ tkVerify.isDuress = marked
            /\ tkVerify.status = IF marked THEN "DURESS"
                                 ELSE IF matches THEN "OK" ELSE "INVALID"
       /\ tkAltered = "none" =>
            /\ Decodable
            /\ tkVerify.valid
            /\ tkVerify.isDuress = (tkArgs.inputPhrase = tkArgs.duressPhrase)
            /\ tkVerify.status = IF tkArgs.inputPhrase = tkArgs.duressPhrase
                                 THEN "DURESS" ELSE "OK"

\* C10 witness: a token whose marker was set after the hash was made is
\* reported as DURESS and not valid
C10_Witness ==
  /\ tkStage = "verified" /\ tkAltered = "marker"
  /\ tkArgs.inputPhrase # tkArgs.duressPhrase
  /\ tkVerify.status = "DURESS" /\ ~tkVerify.valid /\ tkVerify.isDuress

WellFormedPayload ==
  /\ Decodable
  /\ LET payload == JSONparse(atob(tkToken.payload).text)
     IN /\ payload.kind = "object"
        /\ getProperty(payload, <<116>>).kind = "string"
        /\ getProperty(payload, <<112>>).kind = "string"
        /\ getProperty(payload, <<95, 100>>).kind = "string"

\* C17: for a token whose payload is not base64, not JSON, or JSON that is
\* no object with timestamp, package id and marker, verifyToken gives
\* valid false and status INVALID, and reports no timestamp and no package
\* id from the payload.
C17_MalformedFailsClosed ==
  (tkStage = "verified" /\ ~WellFormedPayload) =>
    /\ ~tkVerify.valid
    /\ tkVerify.status = "INVALID"
    /\ ~tkVerify.isDuress
    /\ tkVerify.timestamp = Undefined
    /\ tkVerify.packageId = Undefined

\* the token handed over carries the hash of its own decoded payload text
OwnDigest ==
  /\ atob(tkToken.payload).ok
  /\ tkToken.token = sha256(atob(tkToken.payload).text)

\* a token that differs from the generated one in its visible timestamp and
\* package only gets the result the generated one gets
VisibleFieldsIgnored ==
  (tkStage = "verified" /\ tkAltered = "visible") =>
    /\ tkToken.payload = tkResult.token.payload
    /\ tkToken.token = tkResult.token.token
    /\ tkToken.timestamp # tkResult.token.timestamp
    /\ \A now \in VerifyInstants :
         verifyToken(tkToken, now) = verifyToken(tkResult.token, now)
    /\ \E now \in VerifyInstants : tkVerify = verifyToken(tkResult.token, now)
    /\ tkVerify.timestamp = Str(tkResult.token.timestamp)
    /\ tkVerify.packageId = Str(tkResult.token.package)

\* C18 as stated: the visible timestamp and package do not enter the
\* result, and every payload carried with its own digest is reported OK.
C18_OwnDigestAlwaysOK ==
  /\ VisibleFieldsIgnored
  /\ (tkStage = "verified" /\ OwnDigest) => tkVerify.status = "OK"

\* C18: the visible timestamp and package do not enter the result; a payload
\* that decodes to a JSON value other than null, carried with its own
\* digest, is reported valid, with status DURESS when its marker _d is '1'
\* and OK otherwise; one that does not decode so is reported INVALID although
\* the digest is its own.
C18_OwnDigestValid ==
  /\ VisibleFieldsIgnored
  /\ (tkStage = "verified" /\ OwnDigest) =>
       IF Decodable
       THEN /\ tkVerify.valid
            /\ tkVerify.status = IF tkVerify.isDuress THEN "DURESS" ELSE "OK"
            /\ tkVerify.isDuress =
                 (getProperty(JSONparse(atob(tkToken.payload).text), <<95, 100>>)
                    = Str(<<49>>))
       ELSE ~tkVerify.valid /\ tkVerify.status = "INVALID"

\* C18 witness: a token with another visible timestamp and package was
\* verified as OK, with the payload's timestamp and package reported
C18_Witness ==
  /\ tkStage = "verified" /\ tkAltered = "visible" /\ OwnDigest
  /\ tkVerify.status = "OK" /\ tkVerify.valid
  /\ tkVerify.timestamp # Str(tkToken.timestamp)
  /\ tkVerify.packageId # Str(tkToken.package)
  /\ tkVerify.packageId = Str(tkArgs.packageId)

(***************************************************************************)
(* AegisShamir: the exchange specification.  A share of a split is          *)
(* exported and carried as an object or as JSON text, or something else is *)
(* handed over in its place, and importShare is applied to it.             *)
(***************************************************************************)
\* an object handed to importShare, and the JSON text of an object
AsObject(v, share) == [form |-> "value", text |-> <<>>, value |-> v, share |-> share]
AsText(t, share) == [form |-> "text", text |-> t, value |-> Undefined, share |-> share]

\* what is not an exported share: a check-in token, a share export whose tag
\* is false, one without the tag, {} and the JSON texts of these; the texts
\* x, null and 7
UntaggedObjects ==
  {JsObject("object", <<Member("aegis_checkin", JsValue("boolean", Key("true"))),
                        Member("version", Str(Key("1.0.0")))>>),
   JsObject("object", <<Member("aegis_share", JsValue("boolean", Key("false"))),
                        Member("id", JsValue("number", <<49>>)),
                        Member("threshold", JsValue("number", <<50>>)),
                        Member("totalShares", JsValue("number", <<51>>)),
                        Member("data", Str(<<85, 119, 61, 61>>))>>),
   JsObject("object", <<Member("id", JsValue("number", <<49>>)),
                        Member("threshold", JsValue("number", <<50>>)),
                        Member("totalShares", JsValue("number", <<51>>)),
                        Member("data", Str(<<85, 119, 61, 61>>))>>),
   JsObject("object", <<>>)}
ForeignInputs ==
  {AsObject(v, 0) : v \in UntaggedObjects}
    \cup {AsText(stringifyValue(v), 0) : v \in UntaggedObjects}
    \cup {AsText(<<120>>, 0), AsText(Key("null"), 0), AsText(<<55>>, 0)}

\* exportShare(share), kept as the object or turned into text by
\* JSON.stringify
ExportShare ==
  /\ shShares # <<>>
  /\ shExport = NoExport
  /\ \E i \in DOMAIN shShares, now \in TokenInstants, asText \in BOOLEAN :
       shExport' = IF asText
                   THEN AsText(stringifyValue(exportShare(shShares[i], now)), i)
                   ELSE AsObject(exportShare(shShares[i], now), i)
  /\ UNCHANGED <<shSecret, shShares, shSplitErr, shSeed, shPicked, shResult,
                 shImport, notShamir>>

\* something that is no exported share is handed over where a share of the
\* split is expected
HandForeign ==
  /\ shShares # <<>>
  /\ shExport = NoExport
  /\ shExport' \in ForeignInputs
  /\ UNCHANGED <<shSecret, shShares, shSplitErr, shSeed, shPicked, shResult,
                 shImport, notShamir>>

\* importShare(shareJson)
ImportShare ==
  /\ shExport # NoExport
  /\ shImport = NotImported
  /\ shImport' = importShare(shExport)
  /\ UNCHANGED <<shSecret, shShares, shSplitErr, shSeed, shPicked, shResult,
                 shExport, notShamir>>

\* what was handed over and what importShare gave are dropped
Drop ==
  /\ shImport # NotImported
  /\ shExport' = NoExport
  /\ shImport' = NotImported
  /\ UNCHANGED <<shSecret, shShares, shSplitErr, shSeed, shPicked, shResult,
                 notShamir>>

ExchangeNext == Split \/ ExportShare \/ HandForeign \/ ImportShare \/ Drop \/ Discard

SpecExchange == ShamirSpecInit /\ [][ExchangeNext]_vars

SampleFiles ==
  {[name |-> <<97>>, type |-> <<>>, bytes |-> <<>>],
   [name |-> <<98, 46, 116, 120, 116>>, type |-> <<116, 47, 112>>,
    bytes |-> [i \in 1..100 |-> (7 * i) % 256]],
   [name |-> <<114, 233, 46, 98, 105, 110>>, type |-> <<97, 47, 98>>,
    bytes |-> <<255, 0, 128>>]}

\* the lists of up to MaxFiles files
FileLists == UNION {[1..n -> SampleFiles] : n \in 0..MaxFiles}

\* the metadata handed over: { note: "test" }, null, or none
Metadatas ==
  {JsObject("object", <<Member("note", Str(Key("test")))>>),
   JsValue("null", <<>>), Undefined}

\* the instant of new Date() while a package is made, in milliseconds of
\* January 2024
PackageInstants == {14 * 86400000 + 5 * 3600000 + 61007}

EvidenceInit == EvidenceIdle

\* createEvidencePackage(files, metadata, passphrase)
CreatePackage ==
  /\ evStage = "empty"
  /\ \E files \in FileLists, metadata \in Metadatas, passphrase \in Passphrases,
        now \in PackageInstants, seed \in {0, 37} :
       /\ evArgs' = [files |-> files, metadata |-> metadata,
                     passphrase |-> passphrase, now |-> now, seed |-> seed]
       /\ evCreated' = createEvidencePackage(files, metadata, passphrase, now, seed)
  /\ evStage' = "created"
  /\ UNCHANGED <<evOpened, notEvidence>>

\* decryptEvidencePackage(pkg, passphrase)
OpenPackage ==
  /\ evStage = "created"
  /\ \E passphrase \in Passphrases :
       evOpened' = [passphrase |-> passphrase,
                    result |-> decryptEvidencePackage(evCreated.package, passphrase)]
  /\ evStage' = "opened"
  /\ UNCHANGED <<evArgs, evCreated, notEvidence>>

\* the package and what came out of it are put away
ClosePackage ==
  /\ evStage = "opened"
  /\ evArgs' = NoPackageArgs
  /\ evCreated' = NoPackage
  /\ evOpened' = NotOpened
  /\ evStage' = "empty"
  /\ UNCHANGED notEvidence

EvidenceNext == CreatePackage \/ OpenPackage \/ ClosePackage

EvidenceSpecInit ==
  /\ EvidenceInit /\ ShamirInit /\ EscalationIdle /\ HeartbeatIdle
  /\ CryptoIdle /\ TokenIdle

SpecEvidence == EvidenceSpecInit /\ [][EvidenceNext]_vars

\* the hash member of the k-th record of a list of proof hash records
HashOf(records, k) == getProperty(records[k], Key("hash"))

\* C14: a package opened with the passphrase it was made with gives every
\* file in its place with its name, type and bytes; the proof hash records
\* of the decrypted manifest and of createEvidencePackage's result carry,
\* for each file, the digest of the file's bytes as handed in; and the
\* combined proof hash, in the package and in the result, is the digest of
\* these digests joined by ':'.
C14_PackageRoundTrip ==
  (evStage = "opened" /\ evOpened.passphrase = evArgs.passphrase) =>
    LET files == evArgs.files
        opened == evOpened.result
        stored == getProperty(opened.manifest, Key("proofHashes"))
        digests == [k \in 1..Len(files) |-> toHex(digest(files[k].bytes))]
    IN /\ opened.ok
       /\ Len(opened.files) = Len(files)
       /\ \A k \in 1..Len(files) :
            /\ opened.files[k].data = files[k].bytes
            /\ opened.files[k].name = files[k].name
            /\ opened.files[k].type = files[k].type
            /\ HashOf(evCreated.proofHashes, k) = Str(digests[k])
            /\ getProperty(getProperty(stored, toDecimal(k - 1)), Key("hash"))
                 = Str(digests[k])
            /\ getProperty(stored, toDecimal(k - 1)) = evCreated.proofHashes[k]
       /\ stored.kind = "array" /\ Len(stored.members) = Len(files)
       /\ Len(evCreated.proofHashes) = Len(files)
       /\ evCreated.combinedProofHash
            = toHex(digest(utf8Encode(joinHashes(digests))))
       /\ evCreated.package.combinedProofHash = evCreated.combinedProofHash

\* C14 witness: the 100-byte file and the file with the non-ASCII name came
\* back from a package with metadata { note: "test" }, in that order, with
\* two different proof hashes
C14_Witness ==
  /\ evStage = "opened" /\ evOpened.passphrase = evArgs.passphrase
  /\ evOpened.result.ok /\ Len(evArgs.files) = 2
  /\ Len(evArgs.files[1].bytes) = 100
  /\ evArgs.files[2].bytes = <<255, 0, 128>>
  /\ evOpened.result.files[1].data = evArgs.files[1].bytes
  /\ evOpened.result.files[2].data = <<255, 0, 128>>
  /\ getProperty(getProperty(evOpened.result.manifest, Key("metadata")),
                 Key("note")) = Str(Key("test"))
  /\ HashOf(evCreated.proofHashes, 1) # HashOf(evCreated.proofHashes, 2)
  /\ evArgs.seed # 0

====
